---- MODULE Spec2Model ----
(***************************************************************************)
(* A model of the flow-diff report generator of octoberswimmer/flow2apex   *)
(* (the action's run pipeline and its side-by-side diff text helpers).     *)
(*                                                                         *)
(* Text is modelled as Go models it: a string is a sequence of bytes, here *)
(* a sequence of byte values (ASCII codes).  Go indexes bytes from 0; the  *)
(* operator At reads the byte at a 0-based index.  String literals of the  *)
(* code are definitions holding their bytes, the text in a comment.        *)
(***************************************************************************)
EXTENDS Integers, Sequences, FiniteSets, TLC

----------------------------------------------------------------------------
(* Bytes the code names in character literals.                             *)
Ch ==
    [ tab |-> 9, nl |-> 10, vt |-> 11, ff |-> 12, cr |-> 13, space |-> 32,
      quot |-> 34, amp |-> 38, apos |-> 39, slash |-> 47, colon |-> 58,
      lt |-> 60, gt |-> 62, underscore |-> 95, x |-> 120, pipe |-> 124 ]

(* Program constants.                                                      *)
maxDiffChars == 12000
maxErrorChars == 4000
maxCommentChars == 60000
sideBySideWidth == 200
sideBySideTabSize == 3

diffFormatUnified == \* "unified"
    <<117,110,105,102,105,101,100>>
diffFormatSideBySide == \* "side-by-side"
    <<115,105,100,101,45,98,121,45,115,105,100,101>>

----------------------------------------------------------------------------
(* The string primitives of Go's standard library that the code uses.      *)

At(s, i) == s[i + 1]

Repeat(c, n) == [i \in 1..n |-> c]

HasPrefix(s, p) == Len(p) <= Len(s) /\ SubSeq(s, 1, Len(p)) = p

HasSuffix(s, p) == Len(p) <= Len(s) /\ SubSeq(s, Len(s) - Len(p) + 1, Len(s)) = p

Contains(s, sub) ==
    \E i \in 0..(Len(s) - Len(sub)) : SubSeq(s, i + 1, i + Len(sub)) = sub

ToLower(s) == [i \in 1..Len(s) |-> IF s[i] \in 65..90 THEN s[i] + 32 ELSE s[i]]

IsSpace(c) == c \in {Ch.tab, Ch.nl, Ch.vt, Ch.ff, Ch.cr, Ch.space}

TrimSpace(s) ==
    LET keep == {i \in 1..Len(s) : ~IsSpace(s[i])}
    IN  IF keep = {} THEN <<>>
        ELSE SubSeq(s, CHOOSE i \in keep : \A j \in keep : i <= j,
                       CHOOSE i \in keep : \A j \in keep : i >= j)

(* strings.Split(s, sep) for a one-byte separator: the pieces between the  *)
(* separators, one more than there are separators.                         *)
RECURSIVE Split(_, _)
Split(s, sep) ==
    LET at == {i \in 1..Len(s) : s[i] = sep}
    IN  IF at = {} THEN <<s>>
        ELSE LET i == CHOOSE k \in at : \A j \in at : k <= j
             IN  <<SubSeq(s, 1, i - 1)>> \o Split(SubSeq(s, i + 1, Len(s)), sep)

RECURSIVE Join(_, _)
Join(parts, sep) ==
    IF parts = <<>> THEN <<>>
    ELSE IF Len(parts) = 1 THEN parts[1]
    ELSE parts[1] \o sep \o Join(Tail(parts), sep)

(* strings.NewReplacer(old1, new1, old2, new2, ...).Replace(s): scanning   *)
(* left to right, at each position the first pair (in argument order)      *)
(* whose old string starts there is replaced, without overlap.             *)
OldAt(s, i, old) ==
    /\ old # <<>>
    /\ s[i] = old[1]
    /\ i + Len(old) - 1 <= Len(s)
    /\ SubSeq(s, i, i + Len(old) - 1) = old

RECURSIVE ReplaceAll(_, _)
ReplaceAll(s, pairs) ==
    LET hits(i) == {k \in 1..Len(pairs) : OldAt(s, i, pairs[k][1])}
        at == {i \in 1..Len(s) : hits(i) # {}}
    IN  IF at = {} THEN s
        ELSE LET i == CHOOSE p \in at : \A q \in at : p <= q
                 k == CHOOSE h \in hits(i) : \A j \in hits(i) : h <= j
             IN  SubSeq(s, 1, i - 1) \o pairs[k][2] \o
                 ReplaceAll(SubSeq(s, i + Len(pairs[k][1]), Len(s)), pairs)

(* html.EscapeString.                                                      *)
EscLt == \* "&lt;"
    <<38,108,116,59>>
EscGt == \* "&gt;"
    <<38,103,116,59>>
EscAmp == \* "&amp;"
    <<38,97,109,112,59>>
EscApos == \* "&#39;"
    <<38,35,51,57,59>>
EscQuot == \* "&#34;"
    <<38,35,51,52,59>>

EscapeString(s) ==
    ReplaceAll(s, << <<(<<Ch.amp>>), EscAmp>>, <<(<<Ch.apos>>), EscApos>>,
                     <<(<<Ch.lt>>), EscLt>>, <<(<<Ch.gt>>), EscGt>>,
                     <<(<<Ch.quot>>), EscQuot>> >>)

(* Byte-wise order of strings, as sort.Strings compares them.              *)
StringLess(a, b) ==
    \/ /\ Len(a) < Len(b)
       /\ SubSeq(b, 1, Len(a)) = a
    \/ \E i \in 1..Len(a) :
          /\ i <= Len(b)
          /\ a[i] < b[i]
          /\ \A j \in 1..(i - 1) : a[j] = b[j]

RECURSIVE SortStrings(_)
SortStrings(ss) ==
    IF ss = <<>> THEN <<>>
    ELSE LET rest == SortStrings(Tail(ss))
             before == {i \in 1..Len(rest) : StringLess(rest[i], ss[1])}
             n == Cardinality(before)
         IN  SubSeq(rest, 1, n) \o <<ss[1]>> \o SubSeq(rest, n + 1, Len(rest))

----------------------------------------------------------------------------
(* Change detection.                                                       *)
DotFlow == \* ".flow"
    <<46,102,108,111,119>>
DotFlowMetaXml == \* ".flow-meta.xml"
    <<46,102,108,111,119,45,109,101,116,97,46,120,109,108>>

(* regexp `\.flow(-meta\.xml)?$`: the line ends in .flow or .flow-meta.xml *)
MatchesFlowPattern(s) == HasSuffix(s, DotFlow) \/ HasSuffix(s, DotFlowMetaXml)

RECURSIVE DedupeFrom(_, _)
DedupeFrom(in, i) ==
    IF i > Len(in) THEN <<>>
    ELSE (IF i = 1 \/ in[i] # in[i - 1] THEN <<in[i]>> ELSE <<>>) \o DedupeFrom(in, i + 1)

(* A variant of dedupe that returns its input.                             *)
dedupeKeepsAll(in) == in

dedupe(in) == IF Len(in) < 2 THEN in ELSE DedupeFrom(in, 1)

KeepFlowLine(l) == TrimSpace(l) # <<>> /\ MatchesFlowPattern(TrimSpace(l))

RECURSIVE TrimEach(_)
TrimEach(ls) == IF ls = <<>> THEN <<>> ELSE <<TrimSpace(ls[1])>> \o TrimEach(Tail(ls))

(* detectChangedFlows, given the output of the name-only diff.             *)
detectChangedFlows(out) ==
    LET lines == Split(TrimSpace(out), Ch.nl)
        flows == TrimEach(SelectSeq(lines, KeepFlowLine))
    IN  dedupe(SortStrings(flows))

sanitizeFlowPath(flowPath) ==
    ReplaceAll(flowPath, << <<(<<Ch.slash>>), <<Ch.underscore>> >>,
                            <<(<<Ch.space>>), <<Ch.underscore>> >>,
                            <<(<<Ch.tab>>), <<Ch.underscore>> >>,
                            <<(<<Ch.nl>>), <<Ch.underscore>> >>,
                            <<(<<Ch.colon>>), <<Ch.underscore>> >> >>)

----------------------------------------------------------------------------
(* Side-by-side diff text.                                                 *)
UnrecognizedOption == \* "unrecognized option"
    <<117,110,114,101,99,111,103,110,105,122,101,100,32,111,112,116,105,111,110>>
IllegalOption == \* "illegal option"
    <<105,108,108,101,103,97,108,32,111,112,116,105,111,110>>
UnknownOption == \* "unknown option"
    <<117,110,107,110,111,119,110,32,111,112,116,105,111,110>>

sideBySideOptionUnsupported(stderrText) ==
    LET lower == ToLower(stderrText)
    IN  \/ Contains(lower, UnrecognizedOption)
        \/ Contains(lower, IllegalOption)
        \/ Contains(lower, UnknownOption)

APrefix == \* "a/"
    <<97,47>>
BPrefix == \* "b/"
    <<98,47>>

rewriteSideBySideDiffPaths(diffText, flowPath, baseDir, headDir) ==
    ReplaceAll(diffText, << <<baseDir, APrefix \o flowPath>>,
                            <<headDir, BPrefix \o flowPath>> >>)

CommandHeaderPrefix == \* "diff --recursive --side-by-side "
    <<100,105,102,102,32,45,45,114,101,99,117,114,115,105,118,101,32,45,45,115,105,100,101,45,98,121,45,115,105,100,101,32>>

NotCommandHeader(l) == ~HasPrefix(l, CommandHeaderPrefix)

removeSideBySideCommandHeaders(diffText) ==
    IF diffText = <<>> THEN diffText
    ELSE Join(SelectSeq(Split(diffText, Ch.nl), NotCommandHeader), <<Ch.nl>>)

(* A variant of isLikelySideBySideMarker that takes any of the three       *)
(* marker characters at the end of the line.                               *)
isLikelyMarkerAnyAtLineEnd(line, idx, marker) ==
    IF idx < 0 \/ idx >= Len(line) THEN FALSE
    ELSE IF idx = 0 THEN FALSE
    ELSE IF At(line, idx - 1) # Ch.space /\ At(line, idx - 1) # Ch.tab THEN FALSE
    ELSE IF idx + 1 >= Len(line) THEN TRUE
    ELSE At(line, idx + 1) = Ch.space \/ At(line, idx + 1) = Ch.tab

isLikelySideBySideMarker(line, idx, marker) ==
    IF idx < 0 \/ idx >= Len(line) THEN FALSE
    ELSE IF idx = 0 THEN FALSE
    ELSE IF At(line, idx - 1) # Ch.space /\ At(line, idx - 1) # Ch.tab THEN FALSE
    ELSE IF idx + 1 >= Len(line) THEN marker = Ch.lt \/ marker = Ch.gt
    ELSE At(line, idx + 1) = Ch.space \/ At(line, idx + 1) = Ch.tab

NoMarker == [idx |-> 0, marker |-> 0, ok |-> FALSE]

markerColumn ==
    LET mid == (sideBySideWidth \div 2) - 1
    IN  IF mid < 0 THEN 0 ELSE mid

(* A variant of findSideBySideMarker that takes the leftmost marker        *)
(* character between blanks, at whatever column.                           *)
findMarkerAtAnyColumn(line) ==
    LET at == {i \in 0..(Len(line) - 1) :
                  /\ At(line, i) \in {Ch.pipe, Ch.lt, Ch.gt}
                  /\ isLikelySideBySideMarker(line, i, At(line, i))}
    IN  IF at = {} THEN NoMarker
        ELSE LET i == CHOOSE k \in at : \A j \in at : k <= j
             IN  [idx |-> i, marker |-> At(line, i), ok |-> TRUE]

findSideBySideMarker(line) ==
    IF Len(line) = 0 THEN NoMarker
    ELSE LET mid == markerColumn
         IN  IF mid >= Len(line) THEN NoMarker
             ELSE LET marker == At(line, mid)
                  IN  IF /\ marker \in {Ch.pipe, Ch.lt, Ch.gt}
                         /\ isLikelySideBySideMarker(line, mid, marker)
                      THEN [idx |-> mid, marker |-> marker, ok |-> TRUE]
                      ELSE NoMarker

HasMarker(l) == findSideBySideMarker(l).ok

SimplifiedHeaderPrefix == \* "diff -- "
    <<100,105,102,102,32,45,45,32>>

RECURSIVE Reverse(_)
Reverse(q) == IF q = <<>> THEN <<>> ELSE Append(Reverse(Tail(q)), q[1])

(* A variant of suppressCommonSideBySideDiffLines that puts each retained  *)
(* line before the ones retained so far.                                   *)
suppressNewestFirst(diffText) ==
    IF diffText = <<>> THEN diffText
    ELSE Join(Reverse(SelectSeq(Split(diffText, Ch.nl), HasMarker)), <<Ch.nl>>)

HasMarkerOrIsHeader(l) == HasMarker(l) \/ HasPrefix(l, SimplifiedHeaderPrefix)

(* A variant of suppressCommonSideBySideDiffLines that also retains the    *)
(* lines that start with "diff -- ".                                       *)
suppressKeepingHeaders(diffText) ==
    IF diffText = <<>> THEN diffText
    ELSE Join(SelectSeq(Split(diffText, Ch.nl), HasMarkerOrIsHeader), <<Ch.nl>>)

suppressCommonSideBySideDiffLines(diffText) ==
    IF diffText = <<>> THEN diffText
    ELSE Join(SelectSeq(Split(diffText, Ch.nl), HasMarker), <<Ch.nl>>)

SpanLeftOpen == \* "<span class="left">"
    <<60,115,112,97,110,32,99,108,97,115,115,61,34,108,101,102,116,34,62>>
SpanRightOpen == \* "<span class="right">"
    <<60,115,112,97,110,32,99,108,97,115,115,61,34,114,105,103,104,116,34,62>>
SpanSepPipe == \* "<span class="sep">|</span>"
    <<60,115,112,97,110,32,99,108,97,115,115,61,34,115,101,112,34,62,124,60,47,115,112,97,110,62>>
SpanClose == \* "</span>"
    <<60,47,115,112,97,110,62>>

formatSideBySideDiffHTMLLine(line) ==
    IF line = <<>> THEN <<>>
    ELSE LET m == findSideBySideMarker(line)
             upTo == SubSeq(line, 1, m.idx)
             upToMarker == SubSeq(line, 1, m.idx + 1)
             fromMarker == SubSeq(line, m.idx + 1, Len(line))
             after == SubSeq(line, m.idx + 2, Len(line))
         IN  IF ~m.ok THEN EscapeString(line)
             ELSE IF m.marker = Ch.pipe
                  THEN SpanLeftOpen \o EscapeString(upTo) \o SpanClose \o SpanSepPipe
                       \o SpanRightOpen \o EscapeString(after) \o SpanClose
             ELSE IF m.marker = Ch.lt
                  THEN SpanLeftOpen \o EscapeString(upToMarker) \o SpanClose
                       \o EscapeString(after)
             ELSE IF m.marker = Ch.gt
                  THEN EscapeString(upTo) \o SpanRightOpen \o EscapeString(fromMarker)
                       \o SpanClose
             ELSE EscapeString(line)

RECURSIVE FormatEach(_)
FormatEach(ls) ==
    IF ls = <<>> THEN <<>>
    ELSE <<formatSideBySideDiffHTMLLine(ls[1])>> \o FormatEach(Tail(ls))

formatSideBySideDiffHTML(diffText) ==
    IF diffText = <<>> THEN <<>>
    ELSE Join(FormatEach(Split(diffText, Ch.nl)), <<Ch.nl>>)

----------------------------------------------------------------------------
(* Truncation.                                                             *)
DiffTruncatedNotice == \* "\n...diff truncated..."
    <<10,46,46,46,100,105,102,102,32,116,114,117,110,99,97,116,101,100,46,46,46>>

truncateDiff(diffText) ==
    IF Len(diffText) <= maxDiffChars THEN diffText
    ELSE SubSeq(diffText, 1, maxDiffChars) \o DiffTruncatedNotice

truncateBytes(data, max) ==
    IF Len(data) <= max THEN data ELSE SubSeq(data, 1, max)

----------------------------------------------------------------------------
(* The report text.  The comment and the HTML body are built by appending  *)
(* strings; the model keeps the appended strings as a sequence of pieces,  *)
(* whose concatenation (Flatten) is the text.                              *)
MarkerOpen == \* "<!-- flow2apex-diff-comment:"
    <<60,33,45,45,32,102,108,111,119,50,97,112,101,120,45,100,105,102,102,45,99,111,109,109,101,110,116,58>>
MarkerClose == \* " -->"
    <<32,45,45,62>>
TitleLine == \* "## flow2apex Flow Diffs\n\n"
    <<35,35,32,102,108,111,119,50,97,112,101,120,32,70,108,111,119,32,68,105,102,102,115,10,10>>
ComparedA == \* "Compared generated Apex between base `"
    <<67,111,109,112,97,114,101,100,32,103,101,110,101,114,97,116,101,100,32,65,112,101,120,32,98,101,116,119,101,101,110,32,98,97,115,101,32,96>>
ComparedB == \* "` and head `"
    <<96,32,97,110,100,32,104,101,97,100,32,96>>
ComparedC == \* "` for changed flow files.\n\n"
    <<96,32,102,111,114,32,99,104,97,110,103,101,100,32,102,108,111,119,32,102,105,108,101,115,46,10,10>>
FormatA == \* "Diff format: `"
    <<68,105,102,102,32,102,111,114,109,97,116,58,32,96>>
FormatB == \* "`.\n\n"
    <<96,46,10,10>>
HeadingOpen == \* "### `"
    <<35,35,35,32,96>>
HeadingClose == \* "`\n\n"
    <<96,10,10>>
ConversionIssues == \* "Conversion issues:\n\n"
    <<67,111,110,118,101,114,115,105,111,110,32,105,115,115,117,101,115,58,10,10>>
BaseConversionFailed == \* "- Base conversion failed\n"
    <<45,32,66,97,115,101,32,99,111,110,118,101,114,115,105,111,110,32,102,97,105,108,101,100,10>>
BaseFlowMissing == \* "- Base flow file missing (added in PR)\n"
    <<45,32,66,97,115,101,32,102,108,111,119,32,102,105,108,101,32,109,105,115,115,105,110,103,32,40,97,100,100,101,100,32,105,110,32,80,82,41,10>>
HeadConversionFailed == \* "- Head conversion failed\n"
    <<45,32,72,101,97,100,32,99,111,110,118,101,114,115,105,111,110,32,102,97,105,108,101,100,10>>
HeadFlowMissing == \* "- Head flow file missing (deleted in PR)\n"
    <<45,32,72,101,97,100,32,102,108,111,119,32,102,105,108,101,32,109,105,115,115,105,110,103,32,40,100,101,108,101,116,101,100,32,105,110,32,80,82,41,10>>
Newline == \* "\n"
    <<10>>
FenceText == \* "```text\n"
    <<96,96,96,116,101,120,116,10>>
FenceDiff == \* "```diff\n"
    <<96,96,96,100,105,102,102,10>>
FenceClose == \* "```\n\n"
    <<96,96,96,10,10>>
BaseLogLabel == \* "[base]\n"
    <<91,98,97,115,101,93,10>>
HeadLogLabel == \* "[head]\n"
    <<91,104,101,97,100,93,10>>
NoDifferences == \* "No generated Apex differences.\n\n"
    <<78,111,32,103,101,110,101,114,97,116,101,100,32,65,112,101,120,32,100,105,102,102,101,114,101,110,99,101,115,46,10,10>>
FailedDiff == \* "Failed to generate diff output.\n\n"
    <<70,97,105,108,101,100,32,116,111,32,103,101,110,101,114,97,116,101,32,100,105,102,102,32,111,117,116,112,117,116,46,10,10>>
CommentTruncatedNotice == \* "\n...comment truncated due to size limit...\n"
    <<10,46,46,46,99,111,109,109,101,110,116,32,116,114,117,110,99,97,116,101,100,32,100,117,101,32,116,111,32,115,105,122,101,32,108,105,109,105,116,46,46,46,10>>
HtmlH2Open == \* "    <h2>"
    <<32,32,32,32,60,104,50,62>>
HtmlH2Close == \* "</h2>\n"
    <<60,47,104,50,62,10>>
HtmlPreOpen == \* "    <pre class="sbs"><span class="sbs-scale">"
    <<32,32,32,32,60,112,114,101,32,99,108,97,115,115,61,34,115,98,115,34,62,60,115,112,97,110,32,99,108,97,115,115,61,34,115,98,115,45,115,99,97,108,101,34,62>>
HtmlPreClose == \* "</span></pre>\n"
    <<60,47,115,112,97,110,62,60,47,112,114,101,62,10>>
HtmlNoDifferences == \* "    <p>No generated Apex differences.</p>\n"
    <<32,32,32,32,60,112,62,78,111,32,103,101,110,101,114,97,116,101,100,32,65,112,101,120,32,100,105,102,102,101,114,101,110,99,101,115,46,60,47,112,62,10>>
HtmlFailedDiff == \* "    <p>Failed to generate diff output.</p>\n"
    <<32,32,32,32,60,112,62,70,97,105,108,101,100,32,116,111,32,103,101,110,101,114,97,116,101,32,100,105,102,102,32,111,117,116,112,117,116,46,60,47,112,62,10>>
HtmlEnd == \* "  </body>\n</html>\n"
    <<32,32,60,47,98,111,100,121,62,10,60,47,104,116,109,108,62,10>>
GeneratedApexName == \* "generated.apex"
    <<103,101,110,101,114,97,116,101,100,46,97,112,101,120>>
BaseRenderPrefix == \* "base-render-"
    <<98,97,115,101,45,114,101,110,100,101,114,45>>
HeadRenderPrefix == \* "head-render-"
    <<104,101,97,100,45,114,101,110,100,101,114,45>>

RECURSIVE Flatten(_)
Flatten(pieces) == IF pieces = <<>> THEN <<>> ELSE pieces[1] \o Flatten(Tail(pieces))

diffCommentMarker(diffFormat) == MarkerOpen \o diffFormat \o MarkerClose

(* run, lines 136-141: the head of the comment.                            *)
CommentHead(baseSHA, headSHA, diffFormat) ==
    << diffCommentMarker(diffFormat), Newline, TitleLine,
       ComparedA \o baseSHA \o ComparedB \o headSHA \o ComparedC,
       FormatA \o diffFormat \o FormatB >>

(* run, lines 168-196: the heading of a flow's section and its status      *)
(* block.                                                                  *)
SectionPieces(flowPath, baseStatus, baseLog, headStatus, headLog) ==
    <<HeadingOpen \o flowPath \o HeadingClose>> \o
    (IF baseStatus = 1 \/ headStatus = 1
     THEN <<ConversionIssues>> \o
          (IF baseStatus = 1 THEN <<BaseConversionFailed>>
           ELSE IF baseStatus = 2 THEN <<BaseFlowMissing>> ELSE <<>>) \o
          (IF headStatus = 1 THEN <<HeadConversionFailed>>
           ELSE IF headStatus = 2 THEN <<HeadFlowMissing>> ELSE <<>>) \o
          <<Newline>> \o
          (IF Len(baseLog) > 0 \/ Len(headLog) > 0
           THEN <<FenceText>> \o
                (IF Len(baseLog) > 0
                 THEN <<BaseLogLabel, truncateBytes(baseLog, maxErrorChars), Newline>>
                 ELSE <<>>) \o
                (IF Len(headLog) > 0
                 THEN <<HeadLogLabel, truncateBytes(headLog, maxErrorChars), Newline>>
                 ELSE <<>>) \o
                <<FenceClose>>
           ELSE <<>>)
     ELSE <<>>)

(* A variant of DiffBlockPieces that writes nothing when the diff tool      *)
(* exited with a code other than 0 and 1.                                  *)
DiffBlockPiecesSilentOnFailure(diffFormat, exit, text) ==
    IF exit = 1
    THEN LET shown == truncateDiff(IF diffFormat = diffFormatSideBySide
                                   THEN suppressCommonSideBySideDiffLines(text)
                                   ELSE text)
         IN  <<IF diffFormat = diffFormatSideBySide THEN FenceText ELSE FenceDiff>> \o
             <<shown>> \o
             (IF ~HasSuffix(shown, Newline) THEN <<Newline>> ELSE <<>>) \o
             <<FenceClose>>
    ELSE IF exit = 0 THEN <<NoDifferences>>
    ELSE <<>>

(* A variant of DiffBlockPieces that shows the output of the diff tool as  *)
(* a diff for every exit code other than 0.                                *)
DiffBlockPiecesNonZeroIsDiff(diffFormat, exit, text) ==
    IF exit # 0
    THEN LET shown == truncateDiff(IF diffFormat = diffFormatSideBySide
                                   THEN suppressCommonSideBySideDiffLines(text)
                                   ELSE text)
         IN  <<IF diffFormat = diffFormatSideBySide THEN FenceText ELSE FenceDiff>> \o
             <<shown>> \o
             (IF ~HasSuffix(shown, Newline) THEN <<Newline>> ELSE <<>>) \o
             <<FenceClose>>
    ELSE <<NoDifferences>>

(* run, lines 202-244: the diff block of a flow's section.                 *)
DiffBlockPieces(diffFormat, exit, text) ==
    IF exit = 1
    THEN LET shown == truncateDiff(IF diffFormat = diffFormatSideBySide
                                   THEN suppressCommonSideBySideDiffLines(text)
                                   ELSE text)
         IN  <<IF diffFormat = diffFormatSideBySide THEN FenceText ELSE FenceDiff>> \o
             <<shown>> \o
             (IF ~HasSuffix(shown, Newline) THEN <<Newline>> ELSE <<>>) \o
             <<FenceClose>>
    ELSE IF exit = 0 THEN <<NoDifferences>>
    ELSE <<FailedDiff>>

HtmlBlockPieces(diffFormat, flowPath, exit, text) ==
    IF diffFormat # diffFormatSideBySide THEN <<>>
    ELSE IF exit = 1
    THEN <<HtmlH2Open, EscapeString(flowPath), HtmlH2Close, HtmlPreOpen,
           formatSideBySideDiffHTML(text), HtmlPreClose>>
    ELSE IF exit = 0
    THEN <<HtmlH2Open, EscapeString(flowPath), HtmlH2Close, HtmlNoDifferences>>
    ELSE <<HtmlH2Open, EscapeString(flowPath), HtmlH2Close, HtmlFailedDiff>>

(* A variant of CommentBody that cuts the body so that it fits the limit   *)
(* together with the notice.                                               *)
CommentBodyWithinLimit(pieces) ==
    LET body == Flatten(pieces)
    IN  IF Len(body) > maxCommentChars
        THEN SubSeq(body, 1, maxCommentChars - Len(CommentTruncatedNotice))
             \o CommentTruncatedNotice
        ELSE body

(* run, lines 247-250: the comment body as written.                        *)
CommentBody(pieces) ==
    LET body == Flatten(pieces)
    IN  IF Len(body) > maxCommentChars
        THEN SubSeq(body, 1, maxCommentChars) \o CommentTruncatedNotice
        ELSE body

----------------------------------------------------------------------------
(* The environment of a run: the arguments, the repository and the tools.  *)

(* Bounds.                                                                 *)
MaxChanged == 2     \* changed paths the name-only diff lists

BaseSHA == \* "b1"
    <<98,49>>
HeadSHA == \* "h2"
    <<104,50>>
TmpDirName == \* "/t"
    <<47,116>>

CommentFilePath == "flow2apex-pr-comment.md"
HtmlFilePath == "flow2apex-pr-diff.html"

PathSlash == \* "a/b.flow"
    <<97,47,98,46,102,108,111,119>>
PathUnderscore == \* "a_b.flow"
    <<97,95,98,46,102,108,111,119>>
PathMeta == \* "c.flow-meta.xml"
    <<99,46,102,108,111,119,45,109,101,116,97,46,120,109,108>>
PathOther == \* "d.md"
    <<100,46,109,100>>

ChangedPathCandidates == {PathSlash, PathUnderscore, PathOther}

RECURSIVE SetToSeq(_)
SetToSeq(S) ==
    IF S = {} THEN <<>>
    ELSE LET e == CHOOSE e \in S : TRUE IN <<e>> \o SetToSeq(S \ {e})

RECURSIVE Lines(_)
Lines(ps) == IF ps = <<>> THEN <<>> ELSE ps[1] \o <<Ch.nl>> \o Lines(Tail(ps))

(* What `git diff --name-only` prints: the changed paths, one per line, in *)
(* path order.                                                             *)
GitOutputs ==
    { Lines(SortStrings(SetToSeq(S))) :
        S \in {T \in SUBSET ChangedPathCandidates : Cardinality(T) <= MaxChanged} }

ConverterStdout == \* "A"
    <<65>>
ArtifactName == \* "F.cls"
    <<70,46,99,108,115>>
StderrByte == [dir |-> 100, stdout |-> 115]   \* "d", "s"

(* The converter writes a diagnostic to its standard error when it fails.  *)
ConverterStderr(mode, ending) ==
    IF ending.launched /\ ending.code # 0 THEN <<StderrByte[mode]>> ELSE <<>>

(* How a process ended: it could not be launched, or it exited with a code.*)
ConverterEndings == {[launched |-> FALSE, code |-> 0]} \cup
                    {[launched |-> TRUE, code |-> c] : c \in {0, 1}}
DiffEndings == {[launched |-> FALSE, code |-> 0]} \cup
               {[launched |-> TRUE, code |-> c] : c \in {0, 1, 2}}

StderrUnrecognized == \* "diff: unrecognized option '--expand-tabs'"
    <<100,105,102,102,58,32,117,110,114,101,99,111,103,110,105,122,101,100,32,111,112,116,105,111,110,32,39,45,45,101,120,112,97,110,100,45,116,97,98,115,39>>
StderrIllegal == \* "diff: illegal option -- t"
    <<100,105,102,102,58,32,105,108,108,101,103,97,108,32,111,112,116,105,111,110,32,45,45,32,116>>
StderrUnknown == \* "diff: Unknown option: --expand-tabs"
    <<100,105,102,102,58,32,85,110,107,110,111,119,110,32,111,112,116,105,111,110,58,32,45,45,101,120,112,97,110,100,45,116,97,98,115>>
StderrNoFile == \* "diff: /t: No such file or directory"
    <<100,105,102,102,58,32,47,116,58,32,78,111,32,115,117,99,104,32,102,105,108,101,32,111,114,32,100,105,114,101,99,116,111,114,121>>

DiffStderrs == {<<>>, StderrUnrecognized, StderrIllegal, StderrUnknown, StderrNoFile}

BannerOptions == \* "diff --recursive --side-by-side --new-file --width=200 --tabsize=3"
    <<100,105,102,102,32,45,45,114,101,99,117,114,115,105,118,101,32,45,45,115,105,100,101,45,98,121,45,115,105,100,101,32,45,45,110,101,119,45,102,105,108,101,32,45,45,119,105,100,116,104,61,50,48,48,32,45,45,116,97,98,115,105,122,101,61,51>>
BannerExpandTabs == \* " --expand-tabs"
    <<32,45,45,101,120,112,97,110,100,45,116,97,98,115>>
UnifiedSample == \* "-A\n+B\n"
    <<45,65,10,43,66,10>>
DiffGitPrefix == \* "diff --git "
    <<100,105,102,102,32,45,45,103,105,116,32>>

(* A line of side-by-side output: the left text, padding up to the         *)
(* separator column, the marker between two spaces, the right text.        *)
SideBySideLine(left, marker, right) ==
    left \o Repeat(Ch.space, markerColumn - Len(left)) \o <<marker, Ch.space>> \o right

(* The standard output of the diff tool when the directories differ.       *)
SideBySideStdout(baseDir, headDir, expandTabs) ==
    BannerOptions \o (IF expandTabs THEN BannerExpandTabs ELSE <<>>) \o
    <<Ch.space>> \o baseDir \o <<Ch.slash>> \o GeneratedApexName \o
    <<Ch.space>> \o headDir \o <<Ch.slash>> \o GeneratedApexName \o <<Ch.nl>> \o
    SideBySideLine(<<67>>, Ch.space, <<67>>) \o <<Ch.nl>> \o
    SideBySideLine(<<65>>, Ch.pipe, <<66>>) \o <<Ch.nl>>

UnifiedStdout(flowPath) ==
    DiffGitPrefix \o APrefix \o flowPath \o <<Ch.space>> \o BPrefix \o flowPath \o
    <<Ch.nl>> \o UnifiedSample

----------------------------------------------------------------------------
(* Inputs of the marker heuristic: a run of content bytes followed by a    *)
(* tail over the bytes the heuristic tells apart, placed around the        *)
(* separator column.                                                       *)
MaxTail == 4
MaxShift == 2

TailBytes == {Ch.space, Ch.tab, Ch.pipe, Ch.lt, Ch.gt, Ch.x}

RECURSIVE SeqsUpTo(_, _)
SeqsUpTo(S, n) ==
    IF n = 0 THEN {<<>>}
    ELSE LET shorter == SeqsUpTo(S, n - 1)
         IN  shorter \cup {Append(t, c) : t \in {u \in shorter : Len(u) = n - 1}, c \in S}

MarkerLines ==
    {<<>>} \cup
    { Repeat(Ch.x, markerColumn - 1 - shift) \o tail :
        shift \in 0..MaxShift, tail \in SeqsUpTo(TailBytes, MaxTail) }

----------------------------------------------------------------------------
VARIABLES
    pc,                 \* where run stands
    resolvedDiffFormat, \* the diff format of the run
    gitOut,             \* what the name-only diff prints
    flows,              \* the change set
    flowIdx,            \* the flow of the current loop iteration (0 before the loop)
    tmpDir,             \* the run's temporary directory: "none", "exists", and
                        \* "removed" once RemoveAll was called on it
    worktree,           \* the base and head worktrees: "none", "exists", "removed"
    deferred,           \* the deferred calls of run, in the order they were deferred
    comment,            \* the comment builder: the strings written to it
    sideBySideHTML,     \* the HTML builder: started, and the strings written after the head
    madeDirs,           \* the render directories made
    files,              \* the files in the render directories
    side,               \* the revision being rendered: "base" or "head"
    log,                \* renderFlow's log buffer
    rendered,           \* baseStatus, baseLog, headStatus, headLog of the iteration
    attempt,            \* the side-by-side attempt about to run (1 or 2)
    diffExit,           \* diffExit of the iteration
    diffText,           \* diffText of the iteration
    calls,              \* the external tool invocations of the iteration in
                        \* progress, in order
    toolsUsed,          \* the external tools the run has invoked so far
    commentFile,        \* the Markdown file on disk
    htmlFile,           \* the HTML file on disk
    outputs,            \* the lines appended to the step output file
    result,             \* "running", then what run returns: "nil" or the error
    removals,           \* the worktree removals attempted, in order, with their outcome
    warnings,           \* the warnings written to stderr
    exitStatus,         \* the exit status of the process (-1 while it runs)
    line,               \* an input line of findSideBySideMarker
    found,              \* whether it was called on line, and what it returned
    text,               \* an input text of the diff text helpers
    applied             \* the helpers applied to it so far, with what they returned

vars ==
    <<pc, resolvedDiffFormat, gitOut, flows, flowIdx, tmpDir, worktree, deferred,
      comment, sideBySideHTML, madeDirs, files, side, log, rendered, attempt,
      diffExit, diffText, calls, toolsUsed, commentFile, htmlFile, outputs, result,
      removals, warnings, exitStatus, line, found, text, applied>>

inputVars == <<resolvedDiffFormat, gitOut, line, found, text, applied>>
resourceVars == <<tmpDir, worktree, deferred>>
reportVars == <<comment, sideBySideHTML>>
dirVars == <<madeDirs, files>>
renderVars == <<side, log, rendered>>
diffVars == <<attempt, diffExit, diffText>>
artifactVars == <<commentFile, htmlFile, outputs>>
exitVars == <<removals, warnings, exitStatus>>

NotRendered == [status |-> -1, log |-> <<>>]
NoFile == [written |-> FALSE, data |-> <<>>]

RunStart ==
    /\ pc = "mkdirs"
    /\ flows = <<>>
    /\ flowIdx = 0
    /\ tmpDir = "none"
    /\ worktree = [base |-> "none", head |-> "none"]
    /\ deferred = <<>>
    /\ comment = <<>>
    /\ sideBySideHTML = [started |-> FALSE, body |-> <<>>]
    /\ madeDirs = {}
    /\ files = {}
    /\ side = "base"
    /\ log = <<>>
    /\ rendered = [base |-> NotRendered, head |-> NotRendered]
    /\ attempt = 1
    /\ diffExit = 0
    /\ diffText = <<>>
    /\ calls = <<>>
    /\ toolsUsed = {}
    /\ commentFile = NoFile
    /\ htmlFile = NoFile
    /\ outputs = <<>>
    /\ result = "running"
    /\ removals = <<>>
    /\ warnings = <<>>
    /\ exitStatus = -1

NotCalled == [called |-> FALSE, r |-> NoMarker]

(* The state of run at line 78, the arguments parsed and the format        *)
(* resolved.                                                               *)
Init ==
    /\ resolvedDiffFormat \in {diffFormatUnified, diffFormatSideBySide}
    /\ gitOut \in GitOutputs
    /\ RunStart
    /\ line = <<>>
    /\ found = NotCalled
    /\ text = <<>>
    /\ applied = <<>>

----------------------------------------------------------------------------
(* return: run returns r, and its deferred calls run next.                 *)
Return(r) ==
    /\ pc' = "return"
    /\ result' = r

htmlFileOutput == IF resolvedDiffFormat = diffFormatSideBySide THEN HtmlFilePath ELSE ""

(* appendOutputs: the file may fail to open, and each line's write may     *)
(* fail; the lines written before a failure stay in the file.              *)
AppendOutputs(values) ==
    \E n \in 0..Len(values), opened \in BOOLEAN :
        /\ ~opened => n = 0
        /\ outputs' = outputs \o SubSeq(values, 1, n)
        /\ Return(IF ~opened THEN "open output file"
                  ELSE IF n < Len(values) THEN "write output"
                  ELSE "nil")

OutputValues(hasChanges) ==
    << [key |-> "has_flow_changes", value |-> hasChanges],
       [key |-> "comment_file", value |-> CommentFilePath],
       [key |-> "html_file", value |-> htmlFileOutput] >>

(* run, lines 83-88.                                                       *)
MakeOutputDirs ==
    /\ pc = "mkdirs"
    /\ \E ok \in BOOLEAN :
          IF ok THEN pc' = "detect" /\ UNCHANGED result
          ELSE Return("create output directory")
    /\ UNCHANGED <<inputVars, flows, flowIdx, resourceVars, reportVars, dirVars,
                   renderVars, diffVars, calls, toolsUsed, artifactVars, exitVars>>

(* run, lines 90-94.                                                       *)
DetectChangedFlows ==
    /\ pc = "detect"
    /\ \E ok \in BOOLEAN :
          IF ok
          THEN /\ flows' = detectChangedFlows(gitOut)
               /\ pc' = IF Len(flows') = 0 THEN "writeEmpty" ELSE "resolveBin"
               /\ UNCHANGED result
          ELSE /\ Return("detect changed files")
               /\ UNCHANGED flows
    /\ UNCHANGED <<inputVars, flowIdx, resourceVars, reportVars, dirVars,
                   renderVars, diffVars, calls, toolsUsed, artifactVars, exitVars>>

(* run, lines 95-97.                                                       *)
WriteEmptyComment ==
    /\ pc = "writeEmpty"
    /\ \E ok \in BOOLEAN :
          IF ok
          THEN /\ commentFile' = [written |-> TRUE, data |-> <<>>]
               /\ pc' = "emptyOutputs"
               /\ UNCHANGED result
          ELSE /\ Return("write empty comment file")
               /\ UNCHANGED commentFile
    /\ UNCHANGED <<inputVars, flows, flowIdx, resourceVars, reportVars, dirVars,
                   renderVars, diffVars, calls, toolsUsed, htmlFile, outputs, exitVars>>

(* A variant of AppendNoChangeOutputs that reports changes.                *)
AppendNoChangeOutputsAsChanged ==
    /\ pc = "emptyOutputs"
    /\ AppendOutputs(OutputValues("true"))
    /\ UNCHANGED <<inputVars, flows, flowIdx, resourceVars, reportVars, dirVars,
                   renderVars, diffVars, calls, toolsUsed, commentFile, htmlFile,
                   exitVars>>

(* run, lines 98-102.                                                      *)
AppendNoChangeOutputs ==
    /\ pc = "emptyOutputs"
    /\ AppendOutputs(OutputValues("false"))
    /\ UNCHANGED <<inputVars, flows, flowIdx, resourceVars, reportVars, dirVars,
                   renderVars, diffVars, calls, toolsUsed, commentFile, htmlFile,
                   exitVars>>

(* run, lines 105-108.                                                     *)
ResolveFlow2ApexBin ==
    /\ pc = "resolveBin"
    /\ \E ok \in BOOLEAN :
          IF ok THEN pc' = "mkTemp" /\ UNCHANGED result
          ELSE Return("flow2apex binary not found")
    /\ UNCHANGED <<inputVars, flows, flowIdx, resourceVars, reportVars, dirVars,
                   renderVars, diffVars, calls, toolsUsed, artifactVars, exitVars>>

(* run, lines 110-114.                                                     *)
MakeTempDir ==
    /\ pc = "mkTemp"
    /\ \E ok \in BOOLEAN :
          IF ok
          THEN /\ tmpDir' = "exists"
               /\ deferred' = Append(deferred, "removeTmpDir")
               /\ pc' = "createBase"
               /\ UNCHANGED result
          ELSE /\ Return("create temp dir")
               /\ UNCHANGED <<tmpDir, deferred>>
    /\ UNCHANGED <<inputVars, flows, flowIdx, worktree, reportVars, dirVars,
                   renderVars, diffVars, calls, toolsUsed, artifactVars, exitVars>>

(* A variant of CreateWorktree that defers no removal.                     *)
CreateWorktreeUndeferred(w, next) ==
    /\ toolsUsed' = toolsUsed \cup {"worktree"}
    /\ \E ok \in BOOLEAN :
          IF ok
          THEN /\ worktree' = [worktree EXCEPT ![w] = "exists"]
               /\ pc' = next
               /\ UNCHANGED result
          ELSE /\ Return("create worktree")
               /\ UNCHANGED worktree
    /\ UNCHANGED <<inputVars, flows, flowIdx, tmpDir, deferred, reportVars, dirVars,
                   renderVars, diffVars, calls, artifactVars, exitVars>>

(* run, lines 116-134: createDetachedWorktree for w and, when it succeeds, *)
(* the deferred removeWorktree.                                            *)
CreateWorktree(w, next) ==
    /\ toolsUsed' = toolsUsed \cup {"worktree"}
    /\ \E ok \in BOOLEAN :
          IF ok
          THEN /\ worktree' = [worktree EXCEPT ![w] = "exists"]
               /\ deferred' = Append(deferred, w)
               /\ pc' = next
               /\ UNCHANGED result
          ELSE /\ Return("create worktree")
               /\ UNCHANGED <<worktree, deferred>>
    /\ UNCHANGED <<inputVars, flows, flowIdx, tmpDir, reportVars, dirVars,
                   renderVars, diffVars, calls, artifactVars, exitVars>>

CreateBaseWorktree == pc = "createBase" /\ CreateWorktree("base", "createHead")

CreateHeadWorktree == pc = "createHead" /\ CreateWorktree("head", "startReport")

(* run, lines 136-146.                                                     *)
StartReport ==
    /\ pc = "startReport"
    /\ comment' = CommentHead(BaseSHA, HeadSHA, resolvedDiffFormat)
    /\ sideBySideHTML' =
          [sideBySideHTML EXCEPT !.started = (resolvedDiffFormat = diffFormatSideBySide)]
    /\ pc' = "loop"
    /\ UNCHANGED <<inputVars, flows, flowIdx, resourceVars, dirVars, renderVars,
                   diffVars, calls, toolsUsed, artifactVars, result, exitVars>>

----------------------------------------------------------------------------
(* The loop over the change set.                                           *)

flowPath == flows[flowIdx]

RenderDir(path, s) ==
    TmpDirName \o <<Ch.slash>> \o
    (IF s = "base" THEN BaseRenderPrefix ELSE HeadRenderPrefix) \o sanitizeFlowPath(path)

baseDir == RenderDir(flowPath, "base")
headDir == RenderDir(flowPath, "head")
outputDir == RenderDir(flowPath, side)

PutFile(fs, dir, name, data) ==
    {f \in fs : ~(f.dir = dir /\ f.name = name)} \cup
    {[dir |-> dir, name |-> name, data |-> data]}

(* run, lines 148-157: the next flow and its two render directories.       *)
BeginFlow ==
    /\ pc = "loop"
    /\ flowIdx < Len(flows)
    /\ flowIdx' = flowIdx + 1
    /\ \E made \in 0..2 :
          /\ madeDirs' = madeDirs \cup
                {RenderDir(flows[flowIdx'], s) :
                    s \in (IF made = 0 THEN {} ELSE IF made = 1 THEN {"base"}
                           ELSE {"base", "head"})}
          /\ IF made = 2 THEN pc' = "stat" /\ UNCHANGED result
             ELSE Return("create render dir")
    /\ side' = "base"
    /\ log' = <<>>
    /\ rendered' = [base |-> NotRendered, head |-> NotRendered]
    /\ attempt' = 1
    /\ diffExit' = 0
    /\ diffText' = <<>>
    /\ calls' = <<>>
    /\ UNCHANGED <<inputVars, flows, resourceVars, reportVars, files, toolsUsed,
                   artifactVars, exitVars>>

(* run, line 148 and 245: the loop ends after the last flow.               *)
EndLoop ==
    /\ pc = "loop"
    /\ flowIdx = Len(flows)
    /\ pc' = "finalize"
    /\ UNCHANGED <<inputVars, flows, flowIdx, resourceVars, reportVars, dirVars,
                   renderVars, diffVars, calls, toolsUsed, artifactVars, result,
                   exitVars>>

----------------------------------------------------------------------------
(* renderFlow, for the revision `side` of the current flow.                *)

(* A variant of RenderReturn with which run returns an error when the      *)
(* conversion failed.                                                      *)
RenderReturnFailureIsFatal(status, lg) ==
    /\ rendered' = [rendered EXCEPT ![side] = [status |-> status, log |-> lg]]
    /\ IF status = 1 THEN side' = side /\ Return("render flow")
       ELSE /\ IF side = "base" THEN side' = "head" /\ pc' = "stat"
               ELSE side' = side /\ pc' = "section"
            /\ UNCHANGED result

(* renderFlow returns (status, lg, nil): run goes on with the head         *)
(* revision, or with the flow's section.                                   *)
RenderReturn(status, lg) ==
    /\ rendered' = [rendered EXCEPT ![side] = [status |-> status, log |-> lg]]
    /\ IF side = "base" THEN side' = "head" /\ pc' = "stat"
       ELSE side' = side /\ pc' = "section"
    /\ UNCHANGED result

(* renderFlow returns an error: run returns it (lines 160-166).            *)
RenderError(e) ==
    /\ Return(e)
    /\ UNCHANGED <<rendered, side>>

(* renderFlow, lines 329-337.  A changed flow is in at least one of the    *)
(* two revisions.                                                          *)
StatFlowFile ==
    /\ pc = "stat"
    /\ \E o \in {"exists", "notexist", "error"} :
          /\ (o = "notexist" /\ side = "head") => rendered.base.status # 2
          /\ IF o = "notexist" THEN RenderReturn(2, <<>>)
             ELSE IF o = "error" THEN RenderError("stat flow file")
             ELSE pc' = "toDir" /\ UNCHANGED <<rendered, side, result>>
    /\ log' = <<>>
    /\ UNCHANGED <<inputVars, flows, flowIdx, resourceVars, reportVars, dirVars,
                   diffVars, calls, toolsUsed, artifactVars, exitVars>>

(* A variant of runFlow2ApexToDir that takes a process that could not be   *)
(* launched for one that exited with a non-zero code.                      *)
runFlow2ApexToDirLaunchAsExit(ending, stderr) ==
    IF ending.launched /\ ending.code = 0
    THEN [ok |-> TRUE, stderr |-> stderr, err |-> "nil"]
    ELSE [ok |-> FALSE, stderr |-> stderr, err |-> "nil"]

(* A variant of runFlow2ApexToDir that reports no success for a process    *)
(* that exited with code 0.                                                *)
runFlow2ApexToDirNeverOk(ending, stderr) ==
    IF ~ending.launched
    THEN [ok |-> FALSE, stderr |-> <<>>, err |-> "run flow2apex with output-dir"]
    ELSE [ok |-> FALSE, stderr |-> stderr, err |-> "nil"]

(* runFlow2ApexToDir: what it returns for the way the process ended.       *)
runFlow2ApexToDir(ending, stderr) ==
    IF ~ending.launched
    THEN [ok |-> FALSE, stderr |-> <<>>, err |-> "run flow2apex with output-dir"]
    ELSE IF ending.code = 0 THEN [ok |-> TRUE, stderr |-> stderr, err |-> "nil"]
    ELSE [ok |-> FALSE, stderr |-> stderr, err |-> "nil"]

(* runFlow2ApexToStdout: what it returns for the way the process ended.    *)
runFlow2ApexToStdout(ending, stdout, stderr) ==
    IF ~ending.launched
    THEN [ok |-> FALSE, stdout |-> <<>>, stderr |-> <<>>, err |-> "run flow2apex fallback"]
    ELSE IF ending.code = 0
    THEN [ok |-> TRUE, stdout |-> stdout, stderr |-> stderr, err |-> "nil"]
    ELSE [ok |-> FALSE, stdout |-> stdout, stderr |-> stderr, err |-> "nil"]

(* A variant of LogWrite that keeps the last diagnostic only.              *)
LogOverwrite(buffer, stderr) == stderr

(* log.Write(stderr)                                                       *)
LogWrite(buffer, stderr) == buffer \o stderr

ConverterCall(mode, ending, stderr) ==
    [tool |-> "converter", side |-> side, mode |-> mode,
     launched |-> ending.launched, code |-> ending.code, stderr |-> stderr]

(* renderFlow, lines 338-345: the converter in directory-output mode.  On  *)
(* success it has written its artifact into the output directory.          *)
RenderToDir ==
    /\ pc = "toDir"
    /\ \E ending \in ConverterEndings :
          /\ calls' = Append(calls, ConverterCall("dir", ending,
                                                  ConverterStderr("dir", ending)))
          /\ files' = IF ending.launched /\ ending.code = 0
                      THEN PutFile(files, outputDir, ArtifactName, ConverterStdout)
                      ELSE files
          /\ LET r == runFlow2ApexToDir(ending, ConverterStderr("dir", ending))
             IN  IF r.err # "nil" THEN RenderError(r.err) /\ UNCHANGED log
                 ELSE /\ log' = LogWrite(log, r.stderr)
                      /\ IF r.ok THEN RenderReturn(0, log')
                         ELSE pc' = "toStdout" /\ UNCHANGED <<rendered, side, result>>
    /\ toolsUsed' = toolsUsed \cup {"converter"}
    /\ UNCHANGED <<inputVars, flows, flowIdx, resourceVars, reportVars, madeDirs,
                   diffVars, artifactVars, exitVars>>

(* A variant of FallbackFileName: the name of the converter's own artifact.*)
FallbackUnderArtifactName == ArtifactName

(* The name of the file the stream-mode output is written to.              *)
FallbackFileName == GeneratedApexName

(* renderFlow, lines 347-358: the converter in stream-output mode, and the *)
(* write of what it printed.                                               *)
RenderToStdout ==
    /\ pc = "toStdout"
    /\ \E ending \in ConverterEndings, writeOk \in BOOLEAN :
          /\ ~(ending.launched /\ ending.code = 0) => writeOk
          /\ calls' = Append(calls, ConverterCall("stdout", ending,
                                                  ConverterStderr("stdout", ending)))
          /\ LET r == runFlow2ApexToStdout(ending, ConverterStdout,
                                            ConverterStderr("stdout", ending))
             IN  IF r.err # "nil" THEN RenderError(r.err) /\ UNCHANGED <<log, files>>
                 ELSE /\ log' = LogWrite(log, r.stderr)
                      /\ IF r.ok
                         THEN IF writeOk
                              THEN /\ files' = PutFile(files, outputDir,
                                                       FallbackFileName, r.stdout)
                                   /\ RenderReturn(0, log')
                              ELSE /\ RenderError("write generated apex fallback")
                                   /\ UNCHANGED files
                         ELSE RenderReturn(1, log') /\ UNCHANGED files
    /\ toolsUsed' = toolsUsed \cup {"converter"}
    /\ UNCHANGED <<inputVars, flows, flowIdx, resourceVars, reportVars, madeDirs,
                   diffVars, artifactVars, exitVars>>

(* run, lines 168-196.                                                     *)
WriteSection ==
    /\ pc = "section"
    /\ comment' = comment \o SectionPieces(flowPath, rendered.base.status,
                                           rendered.base.log, rendered.head.status,
                                           rendered.head.log)
    /\ pc' = "diff"
    /\ UNCHANGED <<inputVars, flows, flowIdx, resourceVars, sideBySideHTML, dirVars,
                   renderVars, diffVars, calls, toolsUsed, artifactVars, result,
                   exitVars>>

----------------------------------------------------------------------------
(* diffRenderedOutputs, for the current flow.                              *)

(* runDiffCommand: what it returns for the way the process ended.          *)
runDiffCommand(ending, stdout, stderr) ==
    IF ~ending.launched
    THEN [exit |-> 2, stdout |-> <<>>, stderr |-> <<>>, err |-> "exec"]
    ELSE [exit |-> ending.code, stdout |-> stdout, stderr |-> stderr, err |-> "nil"]

DiffCall(format, expandTabs, ending, stderr) ==
    [tool |-> "diff", format |-> format, expandTabs |-> expandTabs,
     launched |-> ending.launched, code |-> ending.code,
     unsupported |-> sideBySideOptionUnsupported(stderr)]

(* diffRenderedOutputs, lines 435-452: the unified diff.                   *)
DiffUnified ==
    /\ pc = "diff"
    /\ resolvedDiffFormat # diffFormatSideBySide
    /\ \E ending \in DiffEndings :
          LET out == IF ending.launched /\ ending.code = 1
                     THEN UnifiedStdout(flowPath) ELSE <<>>
              r == runDiffCommand(ending, out, <<>>)
          IN  /\ calls' = Append(calls, DiffCall(diffFormatUnified, FALSE, ending, <<>>))
              /\ IF r.err # "nil"
                 THEN /\ Return("generate diff output")
                      /\ UNCHANGED <<diffExit, diffText>>
                 ELSE /\ diffExit' = r.exit
                      /\ diffText' = r.stdout
                      /\ pc' = "report"
                      /\ UNCHANGED result
    /\ toolsUsed' = toolsUsed \cup {"diff"}
    /\ UNCHANGED <<inputVars, flows, flowIdx, resourceVars, reportVars, dirVars,
                   renderVars, attempt, artifactVars, exitVars>>

(* diffSideBySide, lines 540-546.                                          *)
SideBySideAttempts == <<[expandTabs |-> TRUE], [expandTabs |-> FALSE]>>

(* A variant of AttemptRejected that looks at the diagnostic alone.        *)
RejectedOnDiagnosticAlone(exit, stderrText) ==
    sideBySideOptionUnsupported(stderrText)

(* A variant of AttemptsExhausted that goes on to the flow's diff block.   *)
ExhaustedGoesOn ==
    /\ pc' = "report"
    /\ UNCHANGED result

(* diffSideBySide, line 555: the attempt was rejected as unsupported.      *)
AttemptRejected(exit, stderrText) ==
    exit = 2 /\ sideBySideOptionUnsupported(stderrText)

(* diffSideBySide, line 564: no attempt is left.                           *)
AttemptsExhausted ==
    Return("generate side-by-side diff output: diff options are not supported")

(* diffSideBySide, lines 548-565: one attempt of the side-by-side diff.    *)
DiffSideBySide ==
    /\ pc = "diff"
    /\ resolvedDiffFormat = diffFormatSideBySide
    /\ \E ending \in DiffEndings, se \in DiffStderrs :
          LET expandTabs == SideBySideAttempts[attempt].expandTabs
              out == IF ending.launched /\ ending.code = 1
                     THEN SideBySideStdout(baseDir, headDir, expandTabs) ELSE <<>>
              r == runDiffCommand(ending, out, se)
          IN  /\ ~ending.launched => se = <<>>
              /\ calls' = Append(calls,
                                 DiffCall(diffFormatSideBySide, expandTabs, ending, se))
              /\ IF r.err # "nil"
                 THEN /\ Return("generate side-by-side diff output")
                      /\ UNCHANGED <<attempt, diffExit, diffText>>
                 ELSE IF AttemptRejected(r.exit, r.stderr)
                 THEN /\ IF attempt < Len(SideBySideAttempts)
                         THEN attempt' = attempt + 1 /\ UNCHANGED <<pc, result>>
                         ELSE AttemptsExhausted /\ UNCHANGED attempt
                      /\ UNCHANGED <<diffExit, diffText>>
                 ELSE /\ diffExit' = r.exit
                      /\ diffText' = removeSideBySideCommandHeaders(
                                        rewriteSideBySideDiffPaths(r.stdout, flowPath,
                                                                   baseDir, headDir))
                      /\ attempt' = 1
                      /\ pc' = "report"
                      /\ UNCHANGED result
    /\ toolsUsed' = toolsUsed \cup {"diff"}
    /\ UNCHANGED <<inputVars, flows, flowIdx, resourceVars, reportVars, dirVars,
                   renderVars, artifactVars, exitVars>>

(* run, lines 202-245: the diff block of the flow, which ends the          *)
(* iteration.                                                              *)
ReportDiff ==
    /\ pc = "report"
    /\ comment' = comment \o DiffBlockPieces(resolvedDiffFormat, diffExit, diffText)
    /\ sideBySideHTML' =
          [sideBySideHTML EXCEPT
              !.body = @ \o HtmlBlockPieces(resolvedDiffFormat, flowPath, diffExit, diffText)]
    /\ pc' = "loop"
    /\ calls' = <<>>
    /\ UNCHANGED <<inputVars, flows, flowIdx, resourceVars, dirVars, renderVars,
                   diffVars, toolsUsed, artifactVars, result, exitVars>>

----------------------------------------------------------------------------
(* The artifacts and the outputs.                                          *)

(* run, lines 247-253.                                                     *)
WriteCommentFile ==
    /\ pc = "finalize"
    /\ \E ok \in BOOLEAN :
          IF ok
          THEN /\ commentFile' = [written |-> TRUE, data |-> CommentBody(comment)]
               /\ pc' = IF resolvedDiffFormat = diffFormatSideBySide
                        THEN "writeHtml" ELSE "outputs"
               /\ UNCHANGED result
          ELSE /\ Return("write comment file")
               /\ UNCHANGED commentFile
    /\ UNCHANGED <<inputVars, flows, flowIdx, resourceVars, reportVars, dirVars,
                   renderVars, diffVars, calls, toolsUsed, htmlFile, outputs, exitVars>>

(* A variant of WriteHtmlFile that goes on to the outputs when the write   *)
(* fails.                                                                  *)
WriteHtmlFileIgnoringError ==
    /\ pc = "writeHtml"
    /\ sideBySideHTML' = [sideBySideHTML EXCEPT !.body = Append(@, HtmlEnd)]
    /\ \E ok \in BOOLEAN :
          /\ htmlFile' = IF ok THEN [written |-> TRUE, data |-> Flatten(sideBySideHTML'.body)]
                         ELSE htmlFile
          /\ pc' = "outputs"
          /\ UNCHANGED result
    /\ UNCHANGED <<inputVars, flows, flowIdx, resourceVars, comment, dirVars,
                   renderVars, diffVars, calls, toolsUsed, commentFile, outputs,
                   exitVars>>

(* run, lines 254-259.  The file holds the document head and the body.     *)
WriteHtmlFile ==
    /\ pc = "writeHtml"
    /\ sideBySideHTML' = [sideBySideHTML EXCEPT !.body = Append(@, HtmlEnd)]
    /\ \E ok \in BOOLEAN :
          IF ok
          THEN /\ htmlFile' = [written |-> TRUE, data |-> Flatten(sideBySideHTML'.body)]
               /\ pc' = "outputs"
               /\ UNCHANGED result
          ELSE /\ Return("write html file")
               /\ UNCHANGED htmlFile
    /\ UNCHANGED <<inputVars, flows, flowIdx, resourceVars, comment, dirVars,
                   renderVars, diffVars, calls, toolsUsed, commentFile, outputs,
                   exitVars>>

(* run, lines 261-265.                                                     *)
AppendChangeOutputs ==
    /\ pc = "outputs"
    /\ AppendOutputs(OutputValues("true"))
    /\ UNCHANGED <<inputVars, flows, flowIdx, resourceVars, reportVars, dirVars,
                   renderVars, diffVars, calls, toolsUsed, commentFile, htmlFile,
                   exitVars>>

----------------------------------------------------------------------------
(* The deferred calls of run, last deferred first, and the process exit.   *)

(* removeWorktree: git removed the worktree; or git failed and the         *)
(* directory is gone (no error); or git failed and it is still there.      *)
RemovalOutcomes == {"removed", "gone", "failed"}

removeWorktree(outcome) == IF outcome = "failed" THEN "remove worktree" ELSE "nil"

(* A variant of ResultAfterRemoval that returns the error of the removal.  *)
ResultOrRemovalError(res, removeErr) == IF removeErr # "nil" THEN removeErr ELSE res

(* run, lines 120-124 and 130-134: the deferred function logs the error of *)
(* removeWorktree; what run returns stays as it is.                        *)
ResultAfterRemoval(res, removeErr) == res

DeferredRemoveWorktree ==
    /\ pc = "return"
    /\ deferred # <<>>
    /\ deferred[Len(deferred)] \in {"base", "head"}
    /\ LET w == deferred[Len(deferred)]
       IN  \E o \in RemovalOutcomes :
              /\ removals' = Append(removals, [worktree |-> w, err |-> removeWorktree(o)])
              /\ worktree' = [worktree EXCEPT
                                 ![w] = IF removeWorktree(o) = "nil" THEN "removed" ELSE @]
              /\ warnings' = IF removeWorktree(o) # "nil"
                             THEN Append(warnings, w) ELSE warnings
              /\ result' = ResultAfterRemoval(result, removeWorktree(o))
    /\ deferred' = SubSeq(deferred, 1, Len(deferred) - 1)
    /\ UNCHANGED <<pc, inputVars, flows, flowIdx, tmpDir, reportVars, dirVars,
                   renderVars, diffVars, calls, toolsUsed, artifactVars, exitStatus>>

(* A variant of DeferredRemoveTmpDir that runs as soon as run returns.     *)
DeferredRemoveTmpDirFirst ==
    /\ pc = "return"
    /\ deferred # <<>>
    /\ deferred[1] = "removeTmpDir"
    /\ tmpDir' = "removed"
    /\ deferred' = Tail(deferred)
    /\ UNCHANGED <<pc, inputVars, flows, flowIdx, worktree, reportVars, dirVars,
                   renderVars, diffVars, calls, toolsUsed, artifactVars, result,
                   exitVars>>

(* run, line 114: os.RemoveAll(tmpDir) is called; what it returns is       *)
(* dropped, and nothing later in the run looks at the directory.           *)
DeferredRemoveTmpDir ==
    /\ pc = "return"
    /\ deferred # <<>>
    /\ deferred[Len(deferred)] = "removeTmpDir"
    /\ tmpDir' = "removed"
    /\ deferred' = SubSeq(deferred, 1, Len(deferred) - 1)
    /\ UNCHANGED <<pc, inputVars, flows, flowIdx, worktree, reportVars, dirVars,
                   renderVars, diffVars, calls, toolsUsed, artifactVars, result,
                   exitVars>>

(* main, lines 27-32: the exit status.                                     *)
Exit ==
    /\ pc = "return"
    /\ deferred = <<>>
    /\ pc' = "done"
    /\ exitStatus' = IF result # "nil" THEN 1 ELSE 0
    /\ UNCHANGED <<inputVars, flows, flowIdx, resourceVars, reportVars, dirVars,
                   renderVars, diffVars, calls, toolsUsed, artifactVars, result,
                   removals, warnings>>

Next ==
    \/ MakeOutputDirs
    \/ DetectChangedFlows
    \/ WriteEmptyComment
    \/ AppendNoChangeOutputs
    \/ ResolveFlow2ApexBin
    \/ MakeTempDir
    \/ CreateBaseWorktree
    \/ CreateHeadWorktree
    \/ StartReport
    \/ BeginFlow
    \/ EndLoop
    \/ StatFlowFile
    \/ RenderToDir
    \/ RenderToStdout
    \/ WriteSection
    \/ DiffUnified
    \/ DiffSideBySide
    \/ ReportDiff
    \/ WriteCommentFile
    \/ WriteHtmlFile
    \/ AppendChangeOutputs
    \/ DeferredRemoveWorktree
    \/ DeferredRemoveTmpDir
    \/ Exit

Spec == Init /\ [][Next]_vars

----------------------------------------------------------------------------
(* findSideBySideMarker applied to a line.                                 *)

InitMarker ==
    /\ resolvedDiffFormat = diffFormatSideBySide
    /\ gitOut = <<>>
    /\ RunStart
    /\ line \in MarkerLines
    /\ found = NotCalled
    /\ text = <<>>
    /\ applied = <<>>

CallFindSideBySideMarker ==
    /\ ~found.called
    /\ found' = [called |-> TRUE, r |-> findSideBySideMarker(line)]
    /\ UNCHANGED <<pc, resolvedDiffFormat, gitOut, flows, flowIdx, resourceVars,
                   reportVars, dirVars, renderVars, diffVars, calls, toolsUsed,
                   artifactVars, result, exitVars, line, text, applied>>

NextMarker == CallFindSideBySideMarker

SpecMarker == InitMarker /\ [][NextMarker]_vars

----------------------------------------------------------------------------
(* The diff text helpers applied to a text.                                *)

(* Bound.                                                                  *)
MaxTextLines == 3   \* lines of an input text

OperandsOne == \* " a/f/one.apex b/f/one.apex"
    <<32,97,47,102,47,111,110,101,46,97,112,101,120,32,98,47,102,47,111,110,101,46,97,112,101,120>>
OperandsTwo == \* " a/f/two.apex b/f/two.apex"
    <<32,97,47,102,47,116,119,111,46,97,112,101,120,32,98,47,102,47,116,119,111,46,97,112,101,120>>

(* The lines of the input texts: a common line, a changed line, a line     *)
(* only on the left and one only on the right, the banners of two file     *)
(* pairs (after the rewrite of the paths), their simplified headers, and   *)
(* the empty line.                                                         *)
CommonLine == SideBySideLine(<<67>>, Ch.space, <<67>>)
ChangedLine == SideBySideLine(<<65>>, Ch.pipe, <<66>>)
LeftOnlyLine == SubSeq(SideBySideLine(<<76>>, Ch.lt, <<>>), 1, markerColumn + 1)
RightOnlyLine == SideBySideLine(<<>>, Ch.gt, <<82>>)
BannerOne == BannerOptions \o BannerExpandTabs \o OperandsOne
BannerTwo == BannerOptions \o OperandsTwo
HeaderOne == SimplifiedHeaderPrefix \o Tail(OperandsOne)
HeaderTwo == SimplifiedHeaderPrefix \o Tail(OperandsTwo)

TextLines ==
    {CommonLine, ChangedLine, LeftOnlyLine, RightOnlyLine, BannerOne, BannerTwo,
     HeaderOne, HeaderTwo, <<>>}

InputTexts == {Join(ls, <<Ch.nl>>) : ls \in SeqsUpTo(TextLines, MaxTextLines)}

InitText ==
    /\ resolvedDiffFormat = diffFormatSideBySide
    /\ gitOut = <<>>
    /\ RunStart
    /\ line = <<>>
    /\ found = NotCalled
    /\ text \in InputTexts
    /\ applied = <<>>

Apply(op, r) ==
    /\ applied' = Append(applied, [op |-> op, r |-> r])
    /\ UNCHANGED <<pc, resolvedDiffFormat, gitOut, flows, flowIdx, resourceVars,
                   reportVars, dirVars, renderVars, diffVars, calls, toolsUsed,
                   artifactVars, result, exitVars, line, found, text>>

(* suppressCommonSideBySideDiffLines applied to the text, and then to what *)
(* it returned.                                                            *)
CallSuppressCommonSideBySideDiffLines ==
    /\ Len(applied) < 2
    /\ \A i \in DOMAIN applied : applied[i].op = "suppress"
    /\ Apply("suppress",
             suppressCommonSideBySideDiffLines(
                 IF applied = <<>> THEN text ELSE applied[Len(applied)].r))

CallRemoveSideBySideCommandHeaders ==
    /\ applied = <<>>
    /\ Apply("remove", removeSideBySideCommandHeaders(text))

NextText ==
    \/ CallSuppressCommonSideBySideDiffLines
    \/ CallRemoveSideBySideCommandHeaders

SpecText == InitText /\ [][NextText]_vars

----------------------------------------------------------------------------
(* The report of a run whose logs, diffs and report are long.  The run is  *)
(* taken up in the loop, at the flow's section or at its diff block, with  *)
(* the report of the flows before it written.                              *)

(* Bound.                                                                  *)
MaxOver == 2        \* bytes (or lines) by which a text goes over its limit

Over == (0 - 1)..MaxOver

(* The flows of such a run: "f1.flow", "f2.flow", ...                      *)
ReportPath(i) == <<102, 48 + i>> \o DotFlow

(* The flows before the last one: with a full diff block each, they leave  *)
(* room for less than one more.                                            *)
EarlierFlows == (maxCommentChars \div maxDiffChars) - 1

(* A text of n bytes that is one line.                                     *)
LongLine(n) == Repeat(Ch.x, n - 1) \o <<Ch.nl>>

(* A changed line of a side-by-side diff that fills both columns, and a    *)
(* text of n such lines.                                                   *)
WideLine ==
    SideBySideLine(Repeat(Ch.x, markerColumn - 1), Ch.pipe, Repeat(Ch.x, markerColumn - 1))

WideText(n) == Lines([i \in 1..n |-> WideLine])

(* The most such lines that truncateDiff leaves whole.                     *)
WideLinesWithinLimit == (maxDiffChars + 1) \div (Len(WideLine) + 1)

Converted == [status |-> 0, log |-> <<>>]

(* The comment and the HTML body after the first n flows, each converted   *)
(* at both revisions and with the diff t.                                  *)
RECURSIVE CommentAfter(_, _, _)
CommentAfter(format, n, t) ==
    IF n = 0 THEN CommentHead(BaseSHA, HeadSHA, format)
    ELSE CommentAfter(format, n - 1, t) \o
         SectionPieces(ReportPath(n), 0, <<>>, 0, <<>>) \o DiffBlockPieces(format, 1, t)

RECURSIVE HtmlAfter(_, _, _)
HtmlAfter(format, n, t) ==
    IF n = 0 THEN <<>>
    ELSE HtmlAfter(format, n - 1, t) \o HtmlBlockPieces(format, ReportPath(n), 1, t)

(* The converter invocations behind one revision's outcome.                *)
ConverterCallsBehind(s, outcome) ==
    IF outcome.status = 2 THEN <<>>
    ELSE IF outcome.status = 0
    THEN <<[tool |-> "converter", side |-> s, mode |-> "dir", launched |-> TRUE,
            code |-> 0, stderr |-> <<>>]>>
    ELSE <<[tool |-> "converter", side |-> s, mode |-> "dir", launched |-> TRUE,
            code |-> 1, stderr |-> outcome.log],
           [tool |-> "converter", side |-> s, mode |-> "stdout", launched |-> TRUE,
            code |-> 1, stderr |-> <<>>]>>

(* One revision of a flow: missing, or the converter failed on it with a   *)
(* log around maxErrorChars.                                               *)
FailedOutcomes ==
    {[status |-> 2, log |-> <<>>]} \cup
    {[status |-> 1, log |-> Repeat(Ch.x, maxErrorChars + k)] : k \in Over}

(* The run at the section of its only flow.                                *)
SectionStages ==
    {[pc |-> "section", format |-> f, n |-> 1,
      comment |-> CommentHead(BaseSHA, HeadSHA, f), html |-> <<>>,
      base |-> b, head |-> h, diffText |-> <<>>] :
        f \in {diffFormatUnified, diffFormatSideBySide},
        b \in FailedOutcomes,
        h \in FailedOutcomes}

(* The run at the diff block of its n-th and last flow, the diff of each   *)
(* earlier flow being `earlier` and the diff of this one t.                *)
ReportStage(f, n, earlier, t) ==
    [pc |-> "report", format |-> f, n |-> n,
     comment |-> CommentAfter(f, n - 1, earlier) \o
                 SectionPieces(ReportPath(n), 0, <<>>, 0, <<>>),
     html |-> HtmlAfter(f, n - 1, earlier),
     base |-> Converted, head |-> Converted, diffText |-> t]

(* The length of the last unified diff with which the comment is           *)
(* maxCommentChars long.                                                   *)
RoomForLastDiff ==
    maxCommentChars
    - Len(Flatten(ReportStage(diffFormatUnified, EarlierFlows + 1,
                              LongLine(maxDiffChars), <<>>).comment))
    - Len(FenceDiff) - Len(FenceClose)

ReportStages ==
    {ReportStage(diffFormatUnified, 1, <<>>, LongLine(maxDiffChars + k)) : k \in Over}
    \cup
    {ReportStage(diffFormatUnified, EarlierFlows + 1, LongLine(maxDiffChars),
                 LongLine(RoomForLastDiff + k)) : k \in Over}
    \cup
    {ReportStage(diffFormatSideBySide, n, WideText(WideLinesWithinLimit),
                 WideText(WideLinesWithinLimit + k)) :
        n \in {1, EarlierFlows + 1}, k \in Over}

InitReport ==
    \E s \in SectionStages \cup ReportStages :
        /\ s.base.status # 2 \/ s.head.status # 2
        /\ pc = s.pc
        /\ resolvedDiffFormat = s.format
        /\ flows = [i \in 1..s.n |-> ReportPath(i)]
        /\ gitOut = Lines(flows)
        /\ flowIdx = s.n
        /\ tmpDir = "exists"
        /\ worktree = [base |-> "exists", head |-> "exists"]
        /\ deferred = <<"removeTmpDir", "base", "head">>
        /\ comment = s.comment
        /\ sideBySideHTML = [started |-> (s.format = diffFormatSideBySide),
                             body |-> s.html]
        /\ madeDirs = {RenderDir(ReportPath(i), r) : i \in 1..s.n, r \in {"base", "head"}}
        /\ files = {[dir |-> RenderDir(ReportPath(i), r), name |-> ArtifactName,
                     data |-> ConverterStdout] :
                       i \in (IF s.pc = "report" THEN 1..s.n ELSE {}),
                       r \in {"base", "head"}}
        /\ side = "head"
        /\ log = s.head.log
        /\ rendered = [base |-> s.base, head |-> s.head]
        /\ attempt = 1
        /\ diffExit = (IF s.pc = "report" THEN 1 ELSE 0)
        /\ diffText = s.diffText
        /\ calls = ConverterCallsBehind("base", s.base) \o
                   ConverterCallsBehind("head", s.head) \o
                   (IF s.pc = "report"
                    THEN <<DiffCall(s.format, s.format = diffFormatSideBySide,
                                    [launched |-> TRUE, code |-> 1], <<>>)>>
                    ELSE <<>>)
        /\ toolsUsed = {"worktree", "converter"} \cup
                       (IF s.pc = "report" THEN {"diff"} ELSE {})
        /\ commentFile = NoFile
        /\ htmlFile = NoFile
        /\ outputs = <<>>
        /\ result = "running"
        /\ removals = <<>>
        /\ warnings = <<>>
        /\ exitStatus = -1
        /\ line = <<>>
        /\ found = NotCalled
        /\ text = <<>>
        /\ applied = <<>>

NextReport ==
    \/ WriteSection
    \/ DiffUnified
    \/ DiffSideBySide
    \/ ReportDiff
    \/ EndLoop
    \/ WriteCommentFile
    \/ WriteHtmlFile
    \/ AppendChangeOutputs

SpecReport == InitReport /\ [][NextReport]_vars

----------------------------------------------------------------------------
(* Change detection on what the name-only diff may print: paths in any     *)
(* order, repeated, padded with blanks, next to blank lines and to paths   *)
(* that are no flows.                                                      *)

(* Bound.                                                                  *)
MaxDetectLines == 3 \* lines the name-only diff prints

LineB == \* "b.flow"
    <<98,46,102,108,111,119>>
LineA == \* "a.flow"
    <<97,46,102,108,111,119>>
LineAPadded == \* "\ta.flow \r"
    <<9,97,46,102,108,111,119,32,13>>
LineMeta == \* "c.flow-meta.xml"
    <<99,46,102,108,111,119,45,109,101,116,97,46,120,109,108>>
LineFlowx == \* "b.flowx"
    <<98,46,102,108,111,119,120>>
LineBlank == \* "  "
    <<32,32>>

DetectLines == {LineB, LineA, LineAPadded, LineMeta, PathOther, LineFlowx, LineBlank, <<>>}

DetectOutputs == {Lines(ls) : ls \in SeqsUpTo(DetectLines, MaxDetectLines)}

InitDetect ==
    /\ resolvedDiffFormat = diffFormatUnified
    /\ gitOut \in DetectOutputs
    /\ RunStart
    /\ line = <<>>
    /\ found = NotCalled
    /\ text = <<>>
    /\ applied = <<>>

NextDetect ==
    \/ MakeOutputDirs
    \/ DetectChangedFlows

SpecDetect == InitDetect /\ [][NextDetect]_vars

----------------------------------------------------------------------------
(* Properties of run.                                                      *)

Range(f) == {f[i] : i \in DOMAIN f}

IsDiffCall(c) == c.tool = "diff"
IsBaseConverterCall(c) == c.tool = "converter" /\ c.side = "base"
IsHeadConverterCall(c) == c.tool = "converter" /\ c.side = "head"

(* The diff invocations of the iteration in progress, and the converter    *)
(* invocations for one revision of its flow.                               *)
DiffCalls == SelectSeq(calls, IsDiffCall)
ConverterCallsOf(s) ==
    IF s = "base" THEN SelectSeq(calls, IsBaseConverterCall)
    ELSE SelectSeq(calls, IsHeadConverterCall)

(* The diff tool ran, exited with code 2 and printed a diagnostic that     *)
(* names an unsupported option.                                            *)
Rejected(c) == c.launched /\ c.code = 2 /\ c.unsupported

Revisions == {"base", "head"}
Returned == pc \in {"return", "done"}

(* run found the change set empty.                                         *)
EmptyChangeSet ==
    /\ flows = <<>>
    /\ \/ pc \in {"writeEmpty", "emptyOutputs"}
       \/ Returned /\ result \notin {"create output directory", "detect changed files"}

(* C1: when the detected change set is empty, run creates no worktree and  *)
(* no temporary directory and invokes neither the converter nor the diff   *)
(* tool; it writes the comment file, empty, then the outputs with          *)
(* has_flow_changes=false, and returns nil (exit status 0); the only other *)
(* values it can return are the failures of these two writes.              *)
C1_EmptyChangeSetWritesOnly ==
    EmptyChangeSet =>
        /\ toolsUsed = {}
        /\ calls = <<>>
        /\ worktree = [base |-> "none", head |-> "none"]
        /\ tmpDir = "none"
        /\ Returned =>
              result \in {"nil", "write empty comment file", "open output file",
                          "write output"}
        /\ (Returned /\ result # "write empty comment file") =>
              commentFile = [written |-> TRUE, data |-> <<>>]
        /\ result = "nil" =>
              /\ [key |-> "has_flow_changes", value |-> "false"] \in Range(outputs)
              /\ [key |-> "has_flow_changes", value |-> "true"] \notin Range(outputs)
        /\ (pc = "done" /\ result = "nil") => exitStatus = 0

(* A run over a change that touches no flow, ended with success.           *)
C1_Witness ==
    /\ pc = "done"
    /\ EmptyChangeSet
    /\ gitOut # <<>>
    /\ result = "nil"
    /\ exitStatus = 0
    /\ Len(outputs) = 3

(* The pieces of the comment from the heading of the current flow on.      *)
CurrentSection ==
    LET heading == HeadingOpen \o flowPath \o HeadingClose
        at == {i \in DOMAIN comment : comment[i] = heading}
    IN  IF at = {} THEN <<>>
        ELSE SubSeq(comment, CHOOSE i \in at : \A j \in at : j <= i, Len(comment))

SectionWritten == pc = "diff" /\ DiffCalls = <<>>

(* C2: once the section of a flow is written, a flow whose base revision   *)
(* has no flow file (renderFlow returned status 2 for base) has the "added *)
(* in PR" mark in its section, and a flow whose head revision has none has *)
(* the "deleted in PR" mark, whatever the outcome of the other revision.   *)
C2_MissingSideIsMarked ==
    SectionWritten =>
        /\ rendered.base.status = 2 => BaseFlowMissing \in Range(CurrentSection)
        /\ rendered.head.status = 2 => HeadFlowMissing \in Range(CurrentSection)

(* C3: in side-by-side mode the first diff invocation of a flow expands    *)
(* tabs; when it is rejected (exit code 2 and an unsupported-option        *)
(* diagnostic) exactly one more invocation follows, without tab expansion; *)
(* after any other outcome of the first invocation, and after the second   *)
(* invocation, diffSideBySide invokes the tool no more: at most two        *)
(* invocations per flow.                                                   *)
C3_OneRetryOnUnsupportedOption ==
    resolvedDiffFormat = diffFormatSideBySide =>
        LET d == DiffCalls
        IN  /\ Len(d) <= 2
            /\ Len(d) >= 1 => d[1].expandTabs
            /\ Len(d) = 2 => Rejected(d[1]) /\ ~d[2].expandTabs /\ pc # "diff"
            /\ (Len(d) = 1 /\ Rejected(d[1])) =>
                  pc = "diff" /\ attempt = 2 /\ result = "running"
            /\ (Len(d) = 1 /\ ~Rejected(d[1])) => pc # "diff"

(* The retry produced the diff of the flow.                                *)
C3_Witness ==
    /\ resolvedDiffFormat = diffFormatSideBySide
    /\ pc = "report"
    /\ Len(DiffCalls) = 2
    /\ Rejected(DiffCalls[1])
    /\ diffExit = 1

(* C4: every diff invocation is in the format of the run, the fence of a   *)
(* unified diff is never written to a side-by-side report, and when both   *)
(* side-by-side invocations of a flow are rejected run returns the         *)
(* "diff options are not supported" error with neither artifact written    *)
(* and the exit status 1.                                                  *)
C4_NoFallbackToUnified ==
    /\ \A i \in DOMAIN DiffCalls : DiffCalls[i].format = resolvedDiffFormat
    /\ resolvedDiffFormat = diffFormatSideBySide => FenceDiff \notin Range(comment)
    /\ (Len(DiffCalls) = 2 /\ Rejected(DiffCalls[2])) =>
          /\ Returned
          /\ result = "generate side-by-side diff output: diff options are not supported"
          /\ ~commentFile.written
          /\ ~htmlFile.written
          /\ pc = "done" => exitStatus = 1

(* Both side-by-side invocations were rejected and the process exited.     *)
C4_Witness ==
    /\ pc = "done"
    /\ Len(DiffCalls) = 2
    /\ Rejected(DiffCalls[1])
    /\ Rejected(DiffCalls[2])
    /\ exitStatus = 1

(* C5: when the converter exits non-zero in directory-output mode and 0 in *)
(* stream-output mode for a revision of a flow, renderFlow returns status  *)
(* 0 and what the converter printed is in generated.apex in the output     *)
(* directory of that revision; unless the write of that file fails, which  *)
(* renderFlow returns as an error.                                         *)
C5_StreamFallbackRenders ==
    \A s \in Revisions :
        LET c == ConverterCallsOf(s)
        IN  (/\ Len(c) = 2
             /\ c[1].mode = "dir" /\ c[1].launched /\ c[1].code # 0
             /\ c[2].mode = "stdout" /\ c[2].launched /\ c[2].code = 0) =>
                \/ /\ rendered[s].status = 0
                   /\ [dir |-> RenderDir(flowPath, s), name |-> GeneratedApexName,
                       data |-> ConverterStdout] \in files
                \/ /\ Returned
                   /\ result = "write generated apex fallback"
                   /\ side = s
                   /\ rendered[s] = NotRendered

(* The head revision of a flow rendered by the stream-output mode.         *)
C5_Witness ==
    /\ pc = "section"
    /\ Len(ConverterCallsOf("head")) = 2
    /\ ConverterCallsOf("head")[1].code = 1
    /\ ConverterCallsOf("head")[2].code = 0
    /\ ConverterCallsOf("head")[2].launched
    /\ rendered.head.status = 0

(* C6: when the converter exits non-zero in both modes for a revision of a *)
(* flow, renderFlow returns status 1 and a log that is the diagnostic of   *)
(* the directory-output invocation followed by that of the stream-output   *)
(* invocation; it returns no error (the status is recorded by run only     *)
(* when renderFlow returns without one, and after the head revision no     *)
(* error of renderFlow is what run returns).                               *)
C6_BothModesFailed ==
    \A s \in Revisions :
        LET c == ConverterCallsOf(s)
        IN  (/\ Len(c) = 2
             /\ c[1].launched /\ c[1].code # 0
             /\ c[2].launched /\ c[2].code # 0) =>
                /\ c[1].mode = "dir" /\ c[2].mode = "stdout"
                /\ rendered[s].status = 1
                /\ rendered[s].log = c[1].stderr \o c[2].stderr
                /\ s = "head" =>
                      result \notin {"stat flow file", "run flow2apex with output-dir",
                                     "run flow2apex fallback",
                                     "write generated apex fallback"}

(* The base revision of a flow failed in both modes.                       *)
C6_Witness ==
    /\ pc = "section"
    /\ Len(ConverterCallsOf("base")) = 2
    /\ rendered.base.status = 1
    /\ rendered.base.log = <<StderrByte.dir, StderrByte.stdout>>

(* C7: when the converter cannot be launched, in either mode, no further   *)
(* tool is invoked, renderFlow's error is what run returns, no status is   *)
(* recorded for that revision of the flow, the comment file is not written *)
(* and the exit status is 1.                                               *)
C7_LaunchErrorIsFatal ==
    \A i \in DOMAIN calls :
        (calls[i].tool = "converter" /\ ~calls[i].launched) =>
            /\ i = Len(calls)
            /\ Returned
            /\ result = IF calls[i].mode = "dir" THEN "run flow2apex with output-dir"
                        ELSE "run flow2apex fallback"
            /\ rendered[calls[i].side] = NotRendered
            /\ ~commentFile.written
            /\ pc = "done" => exitStatus = 1

(* The stream-output invocation could not be launched and the process      *)
(* exited.                                                                 *)
C7_Witness ==
    /\ pc = "done"
    /\ calls # <<>>
    /\ calls[Len(calls)].tool = "converter"
    /\ calls[Len(calls)].mode = "stdout"
    /\ ~calls[Len(calls)].launched
    /\ exitStatus = 1

RemovalAttempted(w) == \E i \in DOMAIN removals : removals[i].worktree = w

(* C8: a worktree that was created has its removal deferred until it is    *)
(* attempted, and when run has returned the removal of every created       *)
(* worktree has been attempted.                                            *)
C8_CreatedWorktreesRemoved ==
    \A w \in Revisions :
        worktree[w] # "none" =>
            /\ RemovalAttempted(w) \/ w \in Range(deferred)
            /\ (pc = "done" \/ (pc = "return" /\ deferred = <<>>)) => RemovalAttempted(w)

(* The head worktree could not be created; the base worktree's removal was *)
(* attempted.                                                              *)
C8_Witness ==
    /\ pc = "done"
    /\ result = "create worktree"
    /\ worktree.base # "none"
    /\ worktree.head = "none"
    /\ RemovalAttempted("base")

RemovalFailed(r) == r.err # "nil"
FailedRemovals == SelectSeq(removals, RemovalFailed)

(* C9: every failed worktree removal is a warning and nothing else: what   *)
(* run returns is never the removal's error, it is nil exactly when the    *)
(* outputs were written completely, whatever the removals did, and the     *)
(* exit status is 0 exactly when it is nil.                                *)
C9_RemovalFailureOnlyWarns ==
    /\ warnings = [i \in DOMAIN FailedRemovals |-> FailedRemovals[i].worktree]
    /\ Returned =>
          /\ result # "remove worktree"
          /\ result = "nil" <=> Len(outputs) = Len(OutputValues("true"))
    /\ pc = "done" => (exitStatus = 0 <=> result = "nil")

(* A successful run both of whose worktree removals failed.                *)
C9_Witness ==
    /\ pc = "done"
    /\ Len(FailedRemovals) = 2
    /\ Len(warnings) = 2
    /\ result = "nil"
    /\ exitStatus = 0

----------------------------------------------------------------------------
(* Properties of findSideBySideMarker.                                     *)

Blank == {Ch.space, Ch.tab}

(* The line has a marker character at index (sideBySideWidth/2)-1, after a *)
(* space or tab, and before a space or tab or, for '<' and '>', the end of *)
(* the line.  Byte i of a line (from 0) is element i+1 of the sequence.    *)
MarkerAtSeparator(l) ==
    LET i == (sideBySideWidth \div 2) - 1
    IN  /\ i >= 1
        /\ Len(l) >= i + 1
        /\ l[i + 1] \in {Ch.pipe, Ch.lt, Ch.gt}
        /\ l[i] \in Blank
        /\ \/ Len(l) >= i + 2 /\ l[i + 2] \in Blank
           \/ Len(l) = i + 1 /\ l[i + 1] \in {Ch.lt, Ch.gt}

(* C10: findSideBySideMarker recognizes a marker in a line exactly when    *)
(* the line has one at the separator index as above, and then returns that *)
(* index and the character there.                                          *)
C10_MarkerRecognized ==
    found.called =>
        /\ found.r.ok <=> MarkerAtSeparator(line)
        /\ found.r.ok =>
              /\ found.r.idx = (sideBySideWidth \div 2) - 1
              /\ found.r.marker = line[(sideBySideWidth \div 2)]

(* A '<' that ends the line at the separator index was recognized.         *)
C10_Witness ==
    /\ found.called
    /\ found.r.ok
    /\ found.r.marker = Ch.lt
    /\ Len(line) = sideBySideWidth \div 2

(* Byte j of the line (from 0) is a marker character between two blanks.   *)
FlankedMarkerAt(l, j) ==
    /\ j >= 1
    /\ j + 2 <= Len(l)
    /\ l[j + 1] \in {Ch.pipe, Ch.lt, Ch.gt}
    /\ l[j] \in Blank
    /\ l[j + 2] \in Blank

(* C11: when the byte at index (sideBySideWidth/2)-1 is no marker          *)
(* character (or the line ends before it), findSideBySideMarker reports no *)
(* marker, whatever marker characters stand at other columns.              *)
C11_OnlySeparatorColumn ==
    found.called =>
        ((\/ Len(line) < sideBySideWidth \div 2
          \/ line[sideBySideWidth \div 2] \notin {Ch.pipe, Ch.lt, Ch.gt})
            => ~found.r.ok)

(* A marker character between blanks one column before the separator       *)
(* column, the separator column blank: no marker was reported.             *)
C11_Witness ==
    /\ found.called
    /\ ~found.r.ok
    /\ FlankedMarkerAt(line, (sideBySideWidth \div 2) - 2)

----------------------------------------------------------------------------
(* Properties of the diff text helpers.                                    *)

TextLinesOf(t) == IF t = <<>> THEN <<>> ELSE Split(t, Ch.nl)

(* a is b with some of its elements left out.                              *)
RECURSIVE IsSubsequence(_, _)
IsSubsequence(a, b) ==
    IF a = <<>> THEN TRUE
    ELSE IF b = <<>> THEN FALSE
    ELSE IF a[1] = b[1] THEN IsSubsequence(Tail(a), Tail(b))
    ELSE IsSubsequence(a, Tail(b))

SuppressInput(i) == IF i = 1 THEN text ELSE applied[i - 1].r

(* C12: suppressCommonSideBySideDiffLines applied to its own result        *)
(* returns that result, and the lines it returns are lines of its input in *)
(* the order of the input.                                                 *)
C12_SuppressIdempotentInOrder ==
    \A i \in DOMAIN applied :
        applied[i].op = "suppress" =>
            /\ IsSubsequence(TextLinesOf(applied[i].r), TextLinesOf(SuppressInput(i)))
            /\ i = 2 => applied[2].r = applied[1].r

C12_Witness ==
    /\ Len(applied) = 2
    /\ applied[2].op = "suppress"
    /\ applied[1].r # text
    /\ Len(TextLinesOf(applied[1].r)) >= 2
    /\ TextLinesOf(applied[1].r)[1] # TextLinesOf(applied[1].r)[2]

IsHeaderLine(l) == HasPrefix(l, SimplifiedHeaderPrefix)

(* C14: suppressCommonSideBySideDiffLines retains the header lines         *)
(* "diff -- a/<path> b/<path>" of its input, next to the changed lines.    *)
C14_SuppressRetainsHeaders ==
    (Len(applied) >= 1 /\ applied[1].op = "suppress") =>
        SelectSeq(TextLinesOf(applied[1].r), IsHeaderLine) =
            SelectSeq(TextLinesOf(text), IsHeaderLine)

IsBannerLine(l) == HasPrefix(l, CommandHeaderPrefix)

SimplifiedHeaderOf(l) ==
    LET f == Split(l, Ch.space)
    IN  SimplifiedHeaderPrefix \o f[Len(f) - 1] \o <<Ch.space>> \o f[Len(f)]

(* C15: the text that the header step of diffSideBySide returns has, for   *)
(* every command banner of its input, the header "diff -- <left> <right>"  *)
(* of that banner's file pair.                                             *)
C15_BannerBecomesHeader ==
    (Len(applied) >= 1 /\ applied[1].op = "remove") =>
        \A k \in DOMAIN TextLinesOf(text) :
            IsBannerLine(TextLinesOf(text)[k]) =>
                \E n \in DOMAIN TextLinesOf(applied[1].r) :
                    TextLinesOf(applied[1].r)[n] = SimplifiedHeaderOf(TextLinesOf(text)[k])

----------------------------------------------------------------------------
(* Properties of the diff block.                                           *)

(* What a step appends to the comment.                                     *)
AppendedToComment == SubSeq(comment', Len(comment) + 1, Len(comment'))

(* C16: in unified mode the exit code of the diff tool decides the diff    *)
(* block of the flow: 0 gives the no-differences notice, 1 gives the       *)
(* output of the tool as a diff, and any other code gives the failure      *)
(* notice; in each case the run goes on with the next flow.                *)
C16_UnifiedExitCodeDecidesBlock ==
    [][(pc = "report" /\ resolvedDiffFormat # diffFormatSideBySide) =>
          LET c == DiffCalls[Len(DiffCalls)]
          IN  /\ c.launched
              /\ c.code = 0 => AppendedToComment = <<NoDifferences>>
              /\ c.code = 1 =>
                    AppendedToComment = <<FenceDiff, UnifiedStdout(flowPath), FenceClose>>
              /\ c.code \notin {0, 1} => AppendedToComment = <<FailedDiff>>
              /\ pc' = "loop"
              /\ result' = "running"]_vars

C16_Witness ==
    /\ pc = "loop"
    /\ flowIdx >= 1
    /\ resolvedDiffFormat = diffFormatUnified
    /\ result = "running"
    /\ diffExit = 2
    /\ comment[Len(comment)] = FailedDiff

----------------------------------------------------------------------------
(* Properties of the size limits.                                          *)

(* C17: the comment file holds the comment body when the body is at most   *)
(* maxCommentChars long, and else its first maxCommentChars bytes followed *)
(* by the truncation notice, so it is never longer than maxCommentChars    *)
(* plus the notice; the HTML file holds the whole HTML body.               *)
C17_CommentCutAtLimit ==
    /\ commentFile.written =>
          LET body == Flatten(comment)
          IN  /\ Len(body) <= maxCommentChars => commentFile.data = body
              /\ Len(body) > maxCommentChars =>
                    /\ SubSeq(commentFile.data, 1, maxCommentChars) =
                          SubSeq(body, 1, maxCommentChars)
                    /\ SubSeq(commentFile.data, maxCommentChars + 1,
                              Len(commentFile.data)) = CommentTruncatedNotice
              /\ Len(commentFile.data) <= maxCommentChars + Len(CommentTruncatedNotice)
    /\ htmlFile.written =>
          /\ htmlFile.data = Flatten(sideBySideHTML.body)
          /\ HasSuffix(htmlFile.data, HtmlEnd)

C17_Witness ==
    /\ commentFile.written
    /\ htmlFile.written
    /\ Len(Flatten(comment)) > maxCommentChars
    /\ Len(htmlFile.data) > maxCommentChars

TruncatedWord == \* "truncated"
    <<116,114,117,110,99,97,116,101,100>>

(* The text that follows the first max bytes of t says that t was cut.     *)
MarkedAfter(t, max) == Contains(SubSeq(t, max + 1, Len(t)), TruncatedWord)

(* The flow's section holds a log that is longer than maxErrorChars.       *)
LongLogInSection ==
    /\ pc = "diff"
    /\ \/ rendered.base.status = 1
       \/ rendered.head.status = 1
    /\ \/ Len(rendered.base.log) > maxErrorChars
       \/ Len(rendered.head.log) > maxErrorChars

(* The diff shown in the flow's diff block is longer than maxDiffChars.    *)
LongDiffInBlock ==
    /\ pc = "loop"
    /\ flowIdx >= 1
    /\ diffExit = 1
    /\ Len(IF resolvedDiffFormat = diffFormatSideBySide
           THEN suppressCommonSideBySideDiffLines(diffText) ELSE diffText) > maxDiffChars

(* C18: whenever a log, a diff or the comment is cut at its limit, the     *)
(* text that is written says so: a log cut at maxErrorChars is followed by *)
(* a marker within the flow's section, a diff cut at maxDiffChars and a    *)
(* comment cut at maxCommentChars are followed by their notices.           *)
C18_EveryCutIsMarked ==
    /\ LongLogInSection =>
          Contains(Flatten(SubSeq(comment, Len(CommentHead(BaseSHA, HeadSHA,
                                                           resolvedDiffFormat)) + 1,
                                  Len(comment))),
                   TruncatedWord)
    /\ LongDiffInBlock => MarkedAfter(comment[Len(comment) - 2], maxDiffChars)
    /\ (commentFile.written /\ Len(Flatten(comment)) > maxCommentChars) =>
          MarkedAfter(commentFile.data, maxCommentChars)

----------------------------------------------------------------------------
(* Properties of the step outputs.                                         *)

IsPrefixOf(a, b) == Len(a) <= Len(b) /\ SubSeq(b, 1, Len(a)) = a

HasFlowChangesTrue ==
    \E i \in DOMAIN outputs :
        outputs[i].key = "has_flow_changes" /\ outputs[i].value = "true"

(* The errors with which run returns before it appends the outputs.        *)
FailedBeforeOutputs ==
    Returned /\ result \notin {"nil", "open output file", "write output"}

(* C19: the outputs are appended once, in one go, and only when the        *)
(* artifacts are on disk: no key is written twice, has_flow_changes=true   *)
(* is written only with the Markdown file on disk and, in side-by-side     *)
(* mode, the HTML file too, and a run that fails before that point writes  *)
(* no output.                                                              *)
C19_OutputsAfterArtifacts ==
    /\ \A i, j \in DOMAIN outputs : outputs[i].key = outputs[j].key => i = j
    /\ IsPrefixOf(outputs, OutputValues(IF flows = <<>> THEN "false" ELSE "true"))
    /\ outputs # <<>> => commentFile.written
    /\ HasFlowChangesTrue =>
          /\ commentFile.written
          /\ resolvedDiffFormat = diffFormatSideBySide => htmlFile.written
    /\ FailedBeforeOutputs => outputs = <<>>

C19_Witness ==
    /\ result = "nil"
    /\ resolvedDiffFormat = diffFormatSideBySide
    /\ outputs = OutputValues("true")
    /\ commentFile.written
    /\ htmlFile.written

----------------------------------------------------------------------------
(* Properties of detectChangedFlows.                                       *)

Detected == pc \in {"writeEmpty", "resolveBin"}

(* The lines of the name-only diff, trimmed, that are not empty and end in *)
(* .flow or .flow-meta.xml.                                                *)
FlowLinesOf(out) ==
    {t \in {TrimSpace(l) : l \in Range(Split(out, Ch.nl))} :
        t # <<>> /\ (HasSuffix(t, DotFlow) \/ HasSuffix(t, DotFlowMetaXml))}

(* C20: the change set is sorted in byte order, has no path twice, and its *)
(* paths are the distinct non-empty trimmed lines of the name-only diff    *)
(* that end in .flow or .flow-meta.xml.                                    *)
C20_ChangeSetSortedDistinctFlows ==
    Detected =>
        /\ \A i, j \in DOMAIN flows : i < j => StringLess(flows[i], flows[j])
        /\ Range(flows) = FlowLinesOf(gitOut)

C20_Witness ==
    /\ Detected
    /\ flows = <<LineA, LineB>>
    /\ Split(gitOut, Ch.nl)[1] = LineB
    /\ Split(gitOut, Ch.nl)[2] = LineAPadded
    /\ Split(gitOut, Ch.nl)[3] = LineA

----------------------------------------------------------------------------
(* Properties of the loop over the change set.                             *)

(* The converter ran on revision s of the current flow in both modes and   *)
(* exited with a non-zero code each time.                                  *)
ConverterFailed(s) ==
    /\ Len(ConverterCallsOf(s)) = 2
    /\ \A i \in 1..2 : ConverterCallsOf(s)[i].launched /\ ConverterCallsOf(s)[i].code # 0

(* The errors of the steps that follow a conversion in the iteration.      *)
LaterStepErrors ==
    {"stat flow file", "run flow2apex with output-dir", "run flow2apex fallback",
     "write generated apex fallback", "generate diff output",
     "generate side-by-side diff output",
     "generate side-by-side diff output: diff options are not supported"}

(* The pieces of the comment from the heading of the k-th flow up to the   *)
(* heading of the next, or to the end.                                     *)
HeadingOf(k) == HeadingOpen \o flows[k] \o HeadingClose

HeadingAt(k) ==
    LET at == {i \in DOMAIN comment : comment[i] = HeadingOf(k)}
    IN  IF at = {} THEN 0 ELSE CHOOSE i \in at : \A j \in at : i <= j

SectionOf(k) ==
    IF HeadingAt(k) = 0 THEN <<>>
    ELSE SubSeq(comment, HeadingAt(k),
                IF k < Len(flows) /\ HeadingAt(k + 1) # 0
                THEN HeadingAt(k + 1) - 1 ELSE Len(comment))

(* C21: a converter that exits with a non-zero code in both modes does not *)
(* end the run: the revision gets status 1, the flow's section says that   *)
(* its conversion failed, run returns an error only when a later step      *)
(* fails, and a run that returns no error exits with status 0.             *)
C21_ConversionFailureIsRecoverable ==
    /\ \A s \in {"base", "head"} :
          ConverterFailed(s) =>
              /\ rendered[s].status = 1
              /\ result = "running" \/ result \in LaterStepErrors
    /\ SectionWritten =>
          /\ rendered.base.status = 1 => BaseConversionFailed \in Range(CurrentSection)
          /\ rendered.head.status = 1 => HeadConversionFailed \in Range(CurrentSection)
    /\ pc = "done" => (exitStatus = 0 <=> result = "nil")

C21_Witness ==
    /\ pc = "done"
    /\ exitStatus = 0
    /\ Len(flows) = 2
    /\ BaseConversionFailed \in Range(SectionOf(1))
    /\ HeadConversionFailed \in Range(SectionOf(1))
    /\ rendered.base.status = 0
    /\ rendered.head.status = 0
    /\ diffExit = 1
    /\ SectionOf(2)[Len(SectionOf(2))] = FenceClose
    /\ commentFile.written
    /\ outputs = OutputValues("true")

(* The diff blocks of a section: the notices, and the fences that open a   *)
(* diff (the fence of the status block is followed by a log label).        *)
DiffBlocksIn(sec) ==
    {i \in DOMAIN sec :
        \/ sec[i] \in {NoDifferences, FailedDiff}
        \/ /\ sec[i] \in {FenceDiff, FenceText}
           /\ i < Len(sec)
           /\ sec[i + 1] \notin {BaseLogLabel, HeadLogLabel}}

EndsWithDiffBlock(sec) ==
    /\ sec # <<>>
    /\ sec[Len(sec)] \in {NoDifferences, FailedDiff, FenceClose}
    /\ LET blocks == DiffBlocksIn(sec)
       IN  /\ Cardinality(blocks) = 1
           /\ \A i \in blocks :
                 IF sec[i] \in {NoDifferences, FailedDiff} THEN i = Len(sec)
                 ELSE i >= Len(sec) - 3

----------------------------------------------------------------------------
(* Properties of the render directories.                                   *)

(* C23: the output directory handed to the converter holds no file when    *)
(* the rendering of a revision starts, and no two flows of the change set  *)
(* have an output directory in common.                                     *)
C23_OutputDirIsFresh ==
    /\ pc = "toDir" => \A f \in files : f.dir # outputDir
    /\ \A i, j \in DOMAIN flows :
          i # j => \A s, t \in Revisions :
                      RenderDir(flows[i], s) # RenderDir(flows[j], t)

----------------------------------------------------------------------------
(* Properties of renderFlow's two modes.                                   *)

(* C24: for each revision of a flow the converter is invoked first in      *)
(* directory-output mode, and in stream-output mode only after that        *)
(* invocation exited with a non-zero code: never after it succeeded, and   *)
(* at most twice in all; for a revision whose flow file is missing it is   *)
(* not invoked.                                                            *)
C24_StreamModeOnlyAfterDirModeFailed ==
    \A s \in Revisions :
        LET c == ConverterCallsOf(s)
        IN  /\ Len(c) <= 2
            /\ \A i \in DOMAIN c : c[i].mode = (IF i = 1 THEN "dir" ELSE "stdout")
            /\ Len(c) = 2 => (c[1].launched /\ c[1].code # 0)
            /\ rendered[s].status = 2 => c = <<>>

C24_Witness ==
    /\ pc = "section"
    /\ Len(ConverterCallsOf("base")) = 2
    /\ ConverterCallsOf("base")[2].mode = "stdout"
    /\ rendered.base.status = 1
    /\ rendered.head.status = 2
    /\ ConverterCallsOf("head") = <<>>

----------------------------------------------------------------------------
(* Properties of the html_file output.                                     *)

(* C25: an html_file output that is not empty names the HTML file, and the *)
(* run has written that file; in unified mode the html_file output is      *)
(* empty and no HTML file is written.                                      *)
C25_HtmlFileOutputNamesWrittenFile ==
    /\ \A i \in DOMAIN outputs :
          outputs[i].key = "html_file" =>
              /\ outputs[i].value # "" =>
                    (outputs[i].value = HtmlFilePath /\ htmlFile.written)
              /\ resolvedDiffFormat = diffFormatUnified => outputs[i].value = ""
    /\ resolvedDiffFormat = diffFormatUnified => ~htmlFile.written

----------------------------------------------------------------------------
(* Properties of the cleanup order.                                        *)

(* C26: when run returns, by whatever path, the removal of the head        *)
(* worktree is attempted before that of the base worktree, each once, and  *)
(* the temporary directory is deleted only after the removal of every      *)
(* worktree that was created has been attempted; when the process exits    *)
(* the temporary directory is deleted if it was made.                      *)
C26_CleanupInReverseOrder ==
    /\ removals # <<>> => Returned
    /\ \A i, j \in DOMAIN removals :
          i < j => (removals[i].worktree = "head" /\ removals[j].worktree = "base")
    /\ (RemovalAttempted("base") /\ worktree.head # "none") => RemovalAttempted("head")
    /\ tmpDir = "removed" =>
          /\ Returned
          /\ \A w \in Revisions : worktree[w] # "none" => RemovalAttempted(w)
    /\ pc = "done" => tmpDir # "exists"

C26_Witness ==
    /\ pc = "done"
    /\ result = "generate diff output"
    /\ Len(removals) = 2
    /\ removals[1].worktree = "head"
    /\ removals[2].worktree = "base"
    /\ tmpDir = "removed"

====
